---------------------------- MODULE Spec2Model ----------------------------
(***************************************************************************)
(* Model of the cash-secured-put scoring engine (package csp).             *)
(*                                                                         *)
(* A float64 is modelled as an exact rational <<n, d>> with d > 0 in       *)
(* lowest terms; the pair <<0, 0>> is NaN and <<1, 0>>, <<-1, 0>> are the  *)
(* infinities a division by zero produces.  The engine is a set of pure    *)
(* functions: each is an operator computed the way the code computes it,   *)
(* and each specification draws the arguments of one entry point in its    *)
(* initial states and applies the function in its action.                  *)
(***************************************************************************)
EXTENDS Integers, Sequences, FiniteSets, TLC

VARIABLES
    input,      \* Spec: the SignalInput handed to ComputeSignals
    out,        \* Spec: the SignalOutput it returned
    pc,         \* Spec: "call" before the call, "done" after it
    scorer,     \* SpecScore: the scorer that was called ("none" before)
    raw,        \* SpecScore: the raw metric handed to the scorer
    score,      \* SpecScore: the score it returned
    closes,     \* SpecRSI: the closing prices handed to CalculateRSI
    rsi,        \* SpecRSI: the value it returned
    rsiPc,      \* SpecRSI: "call" before the call, "done" after it
    calcArgs,   \* SpecCalc: the calculator to call (fn) and its arguments
    calcRet,    \* SpecCalc: the value it returned
    calcPc,     \* SpecCalc: "call" before the call, "done" after it
    filterIn,   \* SpecFilter: contracts, underlyingPrice and the clock reading
    filtered,   \* SpecFilter: the slice FilterContracts returned
    filterPc,   \* SpecFilter: "call" before the call, "done" after it
    chain,      \* SpecSelect: the OptionsData handed to SelectTargetContract
    now,        \* SpecSelect: the wall clock, in half days
    target,     \* SpecSelect: the result of the latest call (Nil for nil)
    selectedAt, \* SpecSelect: the clock reading of the latest call
    selectPc,   \* SpecSelect: "idle" before the first call, "done" after a call
    fetched,    \* SpecRefresh: what the database and Yahoo answer during the refresh
    cspWatchlist,    \* SpecRefresh: App.cspWatchlist
    quotes,          \* SpecRefresh: App.quotes
    cspScores,       \* SpecRefresh: App.cspScores
    cspContractInfo, \* SpecRefresh: App.cspContractInfo
    cspTable,        \* SpecRefresh, SpecTable: the data rows of App.cspTable
    refreshPc,  \* SpecRefresh: "call" before refreshCSPData runs, "done" after
    watchlistTable,  \* SpecDB: the rows of the table csp_watchlist
    dbNextId,        \* SpecDB: the number of rows inserted so far
    dbRet,           \* SpecDB: the latest call and what it returned
    dbLastOk,        \* SpecDB: for each ticker, its latest successful add or remove
    chartResp,  \* SpecChart: the chartHistoryResponse handed to parseChartHistoryResponse
    chartRet,   \* SpecChart: what it returned
    chartPc,    \* SpecChart: "call" before the call, "done" after it
    quoteReq,   \* SpecQuotes: the symbols handed to GetQuotes and what fetchQuote answers
    gPc,        \* SpecQuotes: where each goroutine is
    gQuote,     \* SpecQuotes: each goroutine's quote and err
    mu,         \* SpecQuotes: the holder of the mutex (0 when free)
    wg,         \* SpecQuotes: the counter of the WaitGroup
    quotesMap,  \* SpecQuotes: the local map quotes of GetQuotes
    getPc,      \* SpecQuotes: where GetQuotes is
    getRet,     \* SpecQuotes: what GetQuotes returned
    optResp,    \* SpecOptions: the optionsResponse handed to parseOptionsResponse
    optRet,     \* SpecOptions: what it returned
    optClock,   \* SpecOptions: the clock reading of the selection
    optTarget,  \* SpecOptions: the target selected from the parsed chain
    optPc       \* SpecOptions: "parse", "select", "done"

scoringVars == <<input, out, pc, scorer, raw, score, closes, rsi, rsiPc>>

calcVars == <<calcArgs, calcRet, calcPc>>

filterVars == <<filterIn, filtered, filterPc>>

selectVars == <<chain, now, target, selectedAt, selectPc>>

refreshVars ==
    <<fetched, cspWatchlist, quotes, cspScores, cspContractInfo, cspTable, refreshPc>>

dbVars == <<watchlistTable, dbNextId, dbRet, dbLastOk>>

chartVars == <<chartResp, chartRet, chartPc>>

quoteVars == <<quoteReq, gPc, gQuote, mu, wg, quotesMap, getPc, getRet>>

optVars == <<optResp, optRet, optClock, optTarget, optPc>>

\* the variables of the database and of the Yahoo client
ioVars == <<dbVars, chartVars, quoteVars, optVars>>

vars == <<scoringVars, calcVars, filterVars, selectVars, refreshVars, ioVars>>

----------------------------------------------------------------------------
(* float64 arithmetic, exact *)

Abs(n) == IF n < 0 THEN -n ELSE n

RECURSIVE GCD(_, _)
GCD(a, b) == IF b = 0 THEN a ELSE GCD(b, a % b)

\* n/d in lowest terms, d > 0
Q(n, d) ==
    LET s == IF d < 0 THEN -1 ELSE 1
        g == GCD(Abs(n), Abs(d))
    IN  <<(s * n) \div g, (s * d) \div g>>

F(n) == <<n, 1>>

NaN == <<0, 0>>

PosInf == <<1, 0>>

NegInf == <<-1, 0>>

IsNaN(x) == x[1] = 0 /\ x[2] = 0

IsInf(x) == x[1] # 0 /\ x[2] = 0

Sign(n) == IF n > 0 THEN 1 ELSE IF n < 0 THEN -1 ELSE 0

RNeg(x) == <<-x[1], x[2]>>

RAdd(x, y) ==
    IF IsNaN(x) \/ IsNaN(y) THEN NaN
    ELSE IF IsInf(x) THEN (IF IsInf(y) /\ y # x THEN NaN ELSE x)
    ELSE IF IsInf(y) THEN y
    ELSE LET g == GCD(x[2], y[2])
             l == (x[2] \div g) * y[2]
         IN  Q(x[1] * (l \div x[2]) + y[1] * (l \div y[2]), l)

RSub(x, y) == RAdd(x, RNeg(y))

RMul(x, y) ==
    IF IsNaN(x) \/ IsNaN(y) THEN NaN
    ELSE IF IsInf(x) \/ IsInf(y)
         THEN (IF x[1] = 0 \/ y[1] = 0 THEN NaN ELSE <<Sign(x[1]) * Sign(y[1]), 0>>)
    ELSE LET a == Q(x[1], y[2])
             b == Q(y[1], x[2])
         IN  IF a[1] = 0 \/ b[1] = 0 THEN F(0) ELSE <<a[1] * b[1], a[2] * b[2]>>

\* x / y as IEEE 754 divides: a finite x / 0 is an infinity, 0 / 0 is NaN
\* (the sign of a zero is not modelled: every zero is +0)
RDiv(x, y) ==
    IF IsNaN(x) \/ IsNaN(y) THEN NaN
    ELSE IF IsInf(y) THEN (IF IsInf(x) THEN NaN ELSE F(0))
    ELSE IF y[1] = 0 THEN (IF x[1] = 0 THEN NaN ELSE <<Sign(x[1]), 0>>)
    ELSE RMul(x, IF y[1] > 0 THEN <<y[2], y[1]>> ELSE <<-y[2], -y[1]>>)

\* comparisons: every comparison with NaN is false
RLt(x, y) == ~IsNaN(x) /\ ~IsNaN(y) /\ x # y /\ RSub(x, y)[1] < 0

RLe(x, y) == ~IsNaN(x) /\ ~IsNaN(y) /\ (x = y \/ RLt(x, y))

RGe(x, y) == RLe(y, x)

RGt(x, y) == RLt(y, x)

\* math.Min, math.Max: NaN if either argument is
RMin(x, y) == IF IsNaN(x) \/ IsNaN(y) THEN NaN ELSE IF RLt(y, x) THEN y ELSE x

RMax(x, y) == IF IsNaN(x) \/ IsNaN(y) THEN NaN ELSE IF RGt(y, x) THEN y ELSE x

----------------------------------------------------------------------------
(* Signal scorers *)

\* linearInterp with the upper segment measured from x0 instead of x1
linearInterpUpperFromX0(x, x0, x1, x2, y0, y1, y2) ==
    LET s == IF RLe(x, x0) THEN y0
             ELSE IF RLe(x, x1)
                  THEN RAdd(y0, RMul(RDiv(RSub(x, x0), RSub(x1, x0)), RSub(y1, y0)))
             ELSE IF RLe(x, x2)
                  THEN RAdd(y1, RMul(RDiv(RSub(x, x0), RSub(x2, x1)), RSub(y2, y1)))
             ELSE y2
    IN  RMax(F(0), RMin(F(100), s))

linearInterp(x, x0, x1, x2, y0, y1, y2) ==
    LET s == IF RLe(x, x0) THEN y0
             ELSE IF RLe(x, x1)
                  THEN RAdd(y0, RMul(RDiv(RSub(x, x0), RSub(x1, x0)), RSub(y1, y0)))
             ELSE IF RLe(x, x2)
                  THEN RAdd(y1, RMul(RDiv(RSub(x, x1), RSub(x2, x1)), RSub(y2, y1)))
             ELSE y2
    IN  RMax(F(0), RMin(F(100), s))

ScoreVIX(vix) == linearInterp(vix, F(15), F(20), F(30), F(0), F(50), F(100))

ScoreIVRank(ivRank) == linearInterp(ivRank, F(0), F(50), F(100), F(0), F(50), F(100))

\* ScoreRSI without its "rsi >= 70" guard
ScoreRSINoUpperGuard(r) ==
    IF RLe(r, F(20)) THEN F(100)
    ELSE IF RGe(r, F(40))
         THEN RSub(F(50), RMul(RDiv(RSub(r, F(40)), F(70 - 40)), F(50)))
    ELSE RSub(F(100), RMul(RDiv(RSub(r, F(20)), F(40 - 20)), F(50)))

\* ScoreRSI whose [20, 40] segment falls by 100 instead of 50
ScoreRSISteepLow(r) ==
    IF RGe(r, F(70)) THEN F(0)
    ELSE IF RLe(r, F(20)) THEN F(100)
    ELSE IF RGe(r, F(40))
         THEN RSub(F(50), RMul(RDiv(RSub(r, F(40)), F(70 - 40)), F(50)))
    ELSE RSub(F(100), RMul(RDiv(RSub(r, F(20)), F(40 - 20)), F(100)))

ScoreRSI(r) ==
    IF RGe(r, F(70)) THEN F(0)
    ELSE IF RLe(r, F(20)) THEN F(100)
    ELSE IF RGe(r, F(40))
         THEN RSub(F(50), RMul(RDiv(RSub(r, F(40)), F(70 - 40)), F(50)))
    ELSE RSub(F(100), RMul(RDiv(RSub(r, F(20)), F(40 - 20)), F(50)))

ScorePutCallRatio(pcr) ==
    linearInterp(pcr, Q(1, 2), F(1), Q(3, 2), F(0), F(50), F(100))

ScorePremiumYield(annualizedYield) ==
    linearInterp(annualizedYield, F(0), F(15), F(30), F(0), F(50), F(100))

----------------------------------------------------------------------------
(* Calculators *)

period == 14

\* The first loop of CalculateRSI, for i := 1; i <= period; i++.  closes[i]
\* of the code is cl[i + 1] here (sequences start at 1).
RECURSIVE rsiSums(_, _, _, _)
rsiSums(cl, i, gainSum, lossSum) ==
    IF i > period THEN <<gainSum, lossSum>>
    ELSE LET change == RSub(cl[i + 1], cl[i])
         IN  IF RGt(change, F(0))
             THEN rsiSums(cl, i + 1, RAdd(gainSum, change), lossSum)
             ELSE rsiSums(cl, i + 1, gainSum, RSub(lossSum, change))

\* rsiSmooth that leaves the average of the other side as it was, instead
\* of decaying it by 13/14
RECURSIVE rsiSmoothNoDecay(_, _, _, _)
rsiSmoothNoDecay(cl, i, avgGain, avgLoss) ==
    IF ~(i < Len(cl)) THEN <<avgGain, avgLoss>>
    ELSE LET change == RSub(cl[i + 1], cl[i])
         IN  IF RGt(change, F(0))
             THEN rsiSmoothNoDecay(cl, i + 1,
                      RDiv(RAdd(RMul(avgGain, F(period - 1)), change), F(period)),
                      avgLoss)
             ELSE rsiSmoothNoDecay(cl, i + 1,
                      avgGain,
                      RDiv(RSub(RMul(avgLoss, F(period - 1)), change), F(period)))

\* The second loop, for i := period + 1; i < len(closes); i++.
RECURSIVE rsiSmooth(_, _, _, _)
rsiSmooth(cl, i, avgGain, avgLoss) ==
    IF ~(i < Len(cl)) THEN <<avgGain, avgLoss>>
    ELSE LET change == RSub(cl[i + 1], cl[i])
         IN  IF RGt(change, F(0))
             THEN rsiSmooth(cl, i + 1,
                      RDiv(RAdd(RMul(avgGain, F(period - 1)), change), F(period)),
                      RDiv(RMul(avgLoss, F(period - 1)), F(period)))
             ELSE rsiSmooth(cl, i + 1,
                      RDiv(RMul(avgGain, F(period - 1)), F(period)),
                      RDiv(RSub(RMul(avgLoss, F(period - 1)), change), F(period)))

\* rsiOf without its "avgLoss == 0" guard
rsiOfUnguarded(avgGain, avgLoss) ==
    LET rs == RDiv(avgGain, avgLoss)
    IN  RSub(F(100), RDiv(F(100), RAdd(F(1), rs)))

\* The end of CalculateRSI: the index from the two averages
rsiOf(avgGain, avgLoss) ==
    IF avgLoss = F(0) THEN F(100)
    ELSE LET rs == RDiv(avgGain, avgLoss)
         IN  RSub(F(100), RDiv(F(100), RAdd(F(1), rs)))

\* the two loops of CalculateRSI and its end, for a series long enough
rsiBody(cl) ==
    LET sums == rsiSums(cl, 1, F(0), F(0))
        avg  == rsiSmooth(cl, period + 1,
                          RDiv(sums[1], F(period)), RDiv(sums[2], F(period)))
    IN  rsiOf(avg[1], avg[2])

\* CalculateRSI with "<=" for "<" in its length test
CalculateRSILengthLe(cl) ==
    IF Len(cl) <= period + 1 THEN NaN ELSE rsiBody(cl)

CalculateRSI(cl) ==
    IF Len(cl) < period + 1 THEN NaN ELSE rsiBody(cl)

\* CalculateIVRank measuring current from zero instead of from the low
CalculateIVRankFromZero(current, low52w, high52w) ==
    LET r == RSub(high52w, low52w)
    IN  IF r = F(0) THEN NaN
        ELSE RMul(RDiv(current, r), F(100))

\* CalculateIVRank answering 0 for a zero range
CalculateIVRankZeroRange0(current, low52w, high52w) ==
    LET r == RSub(high52w, low52w)
    IN  IF r = F(0) THEN F(0)
        ELSE RMul(RDiv(RSub(current, low52w), r), F(100))

CalculateIVRank(current, low52w, high52w) ==
    LET r == RSub(high52w, low52w)
    IN  IF r = F(0) THEN NaN
        ELSE RMul(RDiv(RSub(current, low52w), r), F(100))

\* CalculatePremiumYield without the test of dte
CalculatePremiumYieldDteUnguarded(premium, strike, dte) ==
    IF strike = F(0) THEN F(0)
    ELSE RMul(RMul(RDiv(premium, strike), RDiv(F(365), F(dte))), F(100))

\* dte is an int
CalculatePremiumYield(premium, strike, dte) ==
    IF strike = F(0) \/ dte = 0 THEN F(0)
    ELSE RMul(RMul(RDiv(premium, strike), RDiv(F(365), F(dte))), F(100))

\* normCDF(d1) for the d1 that CalculateDelta computes from S = 100, K, iv
\* and dte, in ten-thousandths: math.Log, math.Sqrt and math.Erfc are
\* library functions, so the values they give with RiskFreeRate = 0.05 are
\* tabulated, rounded to four decimals, by <<K, iv>> and then by dte = 1, 2, ..
\* None of the values is within 0.0001 of a delta of -0.20 or -0.50.
NormCDFOfD1 ==
    <<F(90), Q(3, 10)>> :> <<10000, 10000, 10000, 9996, 9988, 9973, 9951, 9922, 9889, 9852, 9811, 9769, 9726, 9682, 9638, 9594,
         9550, 9507, 9465, 9423, 9382, 9343, 9304, 9266, 9229, 9193, 9158, 9124, 9091, 9059, 9028, 8997,
         8967, 8939, 8911, 8883, 8857, 8831, 8806, 8781, 8758, 8734, 8712, 8690, 8668, 8647, 8627, 8607,
         8587, 8568, 8550, 8531, 8514, 8496, 8479, 8463, 8447, 8431, 8415, 8400, 8386, 8371>> @@
    <<F(90), Q(6, 10)>> :> <<9996, 9918, 9757, 9571, 9389, 9220, 9068, 8930, 8807, 8696, 8595, 8504, 8420, 8344, 8274, 8209,
         8150, 8095, 8043, 7995, 7950, 7908, 7869, 7832, 7797, 7764, 7733, 7704, 7676, 7650, 7625, 7601,
         7578, 7556, 7536, 7516, 7497, 7479, 7462, 7445, 7429, 7414, 7399, 7385, 7372, 7359, 7346, 7334,
         7323, 7312, 7301, 7290, 7280, 7271, 7261, 7252, 7244, 7235, 7227, 7219, 7211, 7204>> @@
    <<F(95), Q(3, 10)>> :> <<9995, 9902, 9722, 9522, 9329, 9153, 8995, 8853, 8726, 8611, 8508, 8414, 8329, 8251, 8180, 8114,
         8053, 7996, 7944, 7895, 7849, 7806, 7766, 7728, 7692, 7658, 7626, 7596, 7567, 7540, 7514, 7490,
         7466, 7444, 7422, 7402, 7382, 7363, 7345, 7328, 7311, 7296, 7280, 7265, 7251, 7238, 7224, 7212,
         7199, 7188, 7176, 7165, 7154, 7144, 7134, 7124, 7115, 7106, 7097, 7089, 7080, 7072>> @@
    <<F(95), Q(6, 10)>> :> <<9509, 8816, 8359, 8042, 7809, 7630, 7487, 7370, 7273, 7190, 7119, 7057, 7003, 6955, 6913, 6874,
         6840, 6809, 6780, 6754, 6731, 6709, 6689, 6670, 6653, 6637, 6622, 6609, 6596, 6584, 6573, 6562,
         6553, 6544, 6535, 6527, 6519, 6512, 6506, 6499, 6493, 6488, 6483, 6478, 6473, 6469, 6465, 6461,
         6457, 6454, 6451, 6447, 6445, 6442, 6439, 6437, 6435, 6433, 6431, 6429, 6428, 6426>> @@
    <<F(99), Q(3, 10)>> :> <<7443, 6830, 6548, 6380, 6268, 6186, 6125, 6076, 6038, 6006, 5979, 5957, 5938, 5921, 5907, 5895,
         5885, 5875, 5867, 5860, 5854, 5848, 5843, 5839, 5835, 5832, 5829, 5826, 5824, 5822, 5821, 5820,
         5819, 5818, 5817, 5817, 5816, 5816, 5816, 5816, 5816, 5817, 5817, 5818, 5818, 5819, 5820, 5821,
         5822, 5823, 5824, 5825, 5826, 5827, 5829, 5830, 5831, 5833, 5834, 5836, 5837, 5839>> @@
    <<F(99), Q(6, 10)>> :> <<6331, 6005, 5869, 5793, 5746, 5713, 5691, 5675, 5663, 5654, 5648, 5643, 5640, 5638, 5637, 5637,
         5637, 5638, 5639, 5641, 5643, 5645, 5647, 5650, 5653, 5656, 5659, 5662, 5665, 5668, 5672, 5675,
         5679, 5682, 5686, 5690, 5693, 5697, 5701, 5704, 5708, 5712, 5716, 5719, 5723, 5727, 5731, 5735,
         5738, 5742, 5746, 5750, 5754, 5757, 5761, 5765, 5769, 5772, 5776, 5780, 5784, 5787>> @@
    <<F(101), Q(3, 10)>> :> <<2686, 3356, 3680, 3883, 4027, 4137, 4224, 4297, 4359, 4412, 4459, 4501, 4538, 4573, 4604, 4633,
         4660, 4685, 4709, 4731, 4752, 4771, 4790, 4808, 4825, 4841, 4857, 4872, 4887, 4901, 4914, 4927,
         4940, 4952, 4964, 4975, 4987, 4998, 5008, 5019, 5029, 5038, 5048, 5058, 5067, 5076, 5085, 5093,
         5102, 5110, 5118, 5126, 5134, 5142, 5149, 5157, 5164, 5172, 5179, 5186, 5193, 5200>> @@
    <<F(101), Q(6, 10)>> :> <<3833, 4224, 4411, 4529, 4614, 4680, 4734, 4780, 4819, 4853, 4884, 4912, 4938, 4962, 4984, 5004,
         5023, 5042, 5059, 5075, 5091, 5106, 5120, 5134, 5147, 5160, 5173, 5185, 5196, 5208, 5219, 5229,
         5240, 5250, 5260, 5269, 5279, 5288, 5297, 5306, 5315, 5323, 5332, 5340, 5348, 5356, 5364, 5372,
         5379, 5387, 5394, 5401, 5408, 5415, 5422, 5429, 5436, 5443, 5449, 5456, 5462, 5469>> @@
    <<F(105), Q(3, 10)>> :> <<10, 149, 388, 642, 881, 1097, 1291, 1465, 1621, 1761, 1889, 2006, 2113, 2211, 2302, 2387,
         2466, 2540, 2609, 2674, 2736, 2794, 2849, 2901, 2951, 2998, 3044, 3087, 3129, 3169, 3207, 3244,
         3279, 3313, 3346, 3378, 3409, 3439, 3468, 3496, 3523, 3549, 3575, 3600, 3624, 3648, 3671, 3693,
         3715, 3736, 3757, 3778, 3798, 3817, 3836, 3855, 3873, 3891, 3908, 3925, 3942, 3959>> @@
    <<F(105), Q(6, 10)>> :> <<626, 1423, 1943, 2307, 2579, 2792, 2966, 3112, 3236, 3344, 3439, 3524, 3600, 3669, 3732, 3790,
         3844, 3893, 3940, 3983, 4024, 4063, 4099, 4134, 4167, 4198, 4228, 4257, 4284, 4310, 4336, 4360,
         4383, 4406, 4428, 4449, 4470, 4489, 4509, 4527, 4546, 4563, 4581, 4597, 4614, 4630, 4645, 4660,
         4675, 4690, 4704, 4718, 4732, 4745, 4758, 4771, 4784, 4796, 4808, 4820, 4832, 4843>>

\* the strikes and volatilities the table covers
DeltaStrikes == {F(90), F(95), F(99), F(101), F(105)}

DeltaIVs == {Q(3, 10), Q(6, 10)}

\* the underlying price the table is computed for
DeltaUnderlying == F(100)

\* normCDF(d1), S being DeltaUnderlying
normCDF(S, K, iv, dte) == Q(NormCDFOfD1[<<K, iv>>][dte], 10000)

\* CalculateDelta answering the call's delta, normCDF(d1)
CalculateDeltaOfCall(S, K, iv, dte) ==
    IF RLe(iv, F(0)) \/ dte <= 0 \/ RLe(S, F(0)) \/ RLe(K, F(0)) THEN F(0)
    ELSE normCDF(S, K, iv, dte)

\* dte is an int
CalculateDelta(S, K, iv, dte) ==
    IF RLe(iv, F(0)) \/ dte <= 0 \/ RLe(S, F(0)) \/ RLe(K, F(0)) THEN F(0)
    ELSE RSub(normCDF(S, K, iv, dte), F(1))

----------------------------------------------------------------------------
(* Contract filter *)

(* Time is counted in half days: the clock and every Expiration are numbers *)
(* of half days since the epoch, so that a time to expiration can be a      *)
(* whole number of days or fall between two.                                *)

MinVolume == 10

MinOpenInterest == 10

MaxBidAskSpread == Q(15, 100)

MinBidPrice == Q(10, 100)

MaxDelta == Q(-20, 100)

MinDelta == Q(-50, 100)

\* an OptionContract
Contract(strike, bid, ask, volume, openInterest, iv, expiration) ==
    [Strike |-> strike, LastPrice |-> bid, Bid |-> bid, Ask |-> ask,
     Volume |-> volume, OpenInterest |-> openInterest,
     ImpliedVolatility |-> iv, Expiration |-> expiration, Delta |-> F(0)]

\* time.Until(expTime).Hours() / 24 at the clock reading clock, as a float64
daysLeft(unixTimestamp, clock) == Q(unixTimestamp - clock, 2)

\* int(d), d >= 0: the fraction is dropped
daysUntil(unixTimestamp, clock) ==
    LET d == daysLeft(unixTimestamp, clock)
    IN  IF RLt(d, F(0)) THEN 0 ELSE d[1] \div d[2]

\* the body of the loop of FilterContracts without the open-interest test
filterOneAnyOpenInterest(c, underlyingPrice, clock) ==
    IF c.Volume < MinVolume THEN <<>>
    ELSE IF RLt(c.Bid, MinBidPrice) THEN <<>>
    ELSE LET mid == RDiv(RAdd(c.Bid, c.Ask), F(2))
         IN  IF RLe(mid, F(0)) THEN <<>>
             ELSE LET spread == RDiv(RSub(c.Ask, c.Bid), mid)
                  IN  IF RGt(spread, MaxBidAskSpread) THEN <<>>
                      ELSE LET dte == daysUntil(c.Expiration, clock)
                               delta == CalculateDelta(underlyingPrice, c.Strike,
                                                       c.ImpliedVolatility, dte)
                           IN  IF RLt(delta, MinDelta) \/ RGt(delta, MaxDelta)
                               THEN <<>>
                               ELSE <<[c EXCEPT !.Delta = delta]>>

\* the body of the loop of FilterContracts: what one contract appends to result
filterOne(c, underlyingPrice, clock) ==
    IF c.Volume < MinVolume THEN <<>>
    ELSE IF c.OpenInterest < MinOpenInterest THEN <<>>
    ELSE IF RLt(c.Bid, MinBidPrice) THEN <<>>
    ELSE LET mid == RDiv(RAdd(c.Bid, c.Ask), F(2))
         IN  IF RLe(mid, F(0)) THEN <<>>
             ELSE LET spread == RDiv(RSub(c.Ask, c.Bid), mid)
                  IN  IF RGt(spread, MaxBidAskSpread) THEN <<>>
                      ELSE LET dte == daysUntil(c.Expiration, clock)
                               delta == CalculateDelta(underlyingPrice, c.Strike,
                                                       c.ImpliedVolatility, dte)
                           IN  IF RLt(delta, MinDelta) \/ RGt(delta, MaxDelta)
                               THEN <<>>
                               ELSE <<[c EXCEPT !.Delta = delta]>>

\* clock is what time.Until reads during the call
RECURSIVE FilterContracts(_, _, _)
FilterContracts(contracts, underlyingPrice, clock) ==
    IF contracts = <<>> THEN <<>>
    ELSE filterOne(Head(contracts), underlyingPrice, clock)
             \o FilterContracts(Tail(contracts), underlyingPrice, clock)

----------------------------------------------------------------------------
(* Contract selection *)

\* an OptionsData
Chain(underlyingPrice, puts, calls, expirationDates) ==
    [UnderlyingPrice |-> underlyingPrice, Puts |-> puts, Calls |-> calls,
     ExpirationDates |-> expirationDates]

\* a nil *OptionContract
Nil == [nil |-> TRUE]

\* math.Abs
RAbs(a) == IF IsNaN(a) THEN NaN ELSE <<Abs(a[1]), a[2]>>

\* math.MaxFloat64, which every distance compared with it is below
MaxFloat64 == PosInf

\* the loop over chain.ExpirationDates that takes the first expiration of
\* the window instead of the closest to 30 days
RECURSIVE bestExpiryFirstInWindow(_, _, _, _)
bestExpiryFirstInWindow(exps, clock, bestExpiry, bestDist) ==
    IF exps = <<>> THEN bestExpiry
    ELSE LET exp == Head(exps)
             dte == daysLeft(exp, clock)
             dist == RAbs(RSub(dte, F(30)))
         IN  IF RLt(dte, F(21)) \/ RGt(dte, F(45))
             THEN bestExpiryFirstInWindow(Tail(exps), clock, bestExpiry, bestDist)
             ELSE IF bestExpiry = 0
             THEN bestExpiryFirstInWindow(Tail(exps), clock, exp, dist)
             ELSE bestExpiryFirstInWindow(Tail(exps), clock, bestExpiry, bestDist)

\* the loop over chain.ExpirationDates: bestExpiry after it, from bestExpiry
\* and bestDist before it; clock is the value of now
RECURSIVE bestExpiryLoop(_, _, _, _)
bestExpiryLoop(exps, clock, bestExpiry, bestDist) ==
    IF exps = <<>> THEN bestExpiry
    ELSE LET exp == Head(exps)
             dte == daysLeft(exp, clock)
             dist == RAbs(RSub(dte, F(30)))
         IN  IF RLt(dte, F(21)) \/ RGt(dte, F(45))
             THEN bestExpiryLoop(Tail(exps), clock, bestExpiry, bestDist)
             ELSE IF RLt(dist, bestDist)
             THEN bestExpiryLoop(Tail(exps), clock, exp, dist)
             ELSE bestExpiryLoop(Tail(exps), clock, bestExpiry, bestDist)

\* the puts of the chain that expire at bestExpiry
expiryPutsOf(chain_, bestExpiry) ==
    LET AtExpiry(p) == p.Expiration = bestExpiry
    IN  SelectSeq(chain_.Puts, AtExpiry)

\* the nearest-ATM loop in which a later contract at the same distance wins
RECURSIVE nearestATMLastWins(_, _, _, _)
nearestATMLastWins(filtered_, underlyingPrice, best, bestStrikeDist) ==
    IF filtered_ = <<>> THEN best
    ELSE LET dist == RAbs(RSub(Head(filtered_).Strike, underlyingPrice))
         IN  IF RLe(dist, bestStrikeDist)
             THEN nearestATMLastWins(Tail(filtered_), underlyingPrice,
                                     Head(filtered_), dist)
             ELSE nearestATMLastWins(Tail(filtered_), underlyingPrice,
                                     best, bestStrikeDist)

\* the nearest-ATM loop: best after it, from best and bestStrikeDist before it
RECURSIVE nearestATMLoop(_, _, _, _)
nearestATMLoop(filtered_, underlyingPrice, best, bestStrikeDist) ==
    IF filtered_ = <<>> THEN best
    ELSE LET dist == RAbs(RSub(Head(filtered_).Strike, underlyingPrice))
         IN  IF RLt(dist, bestStrikeDist)
             THEN nearestATMLoop(Tail(filtered_), underlyingPrice,
                                 Head(filtered_), dist)
             ELSE nearestATMLoop(Tail(filtered_), underlyingPrice,
                                 best, bestStrikeDist)

\* SelectTargetContract that does not filter the puts of the expiration
SelectTargetContractUnfiltered(chain_, clock) ==
    LET bestExpiry == bestExpiryLoop(chain_.ExpirationDates, clock, 0, MaxFloat64)
    IN  IF bestExpiry = 0 THEN Nil
        ELSE LET unfiltered == expiryPutsOf(chain_, bestExpiry)
             IN  IF Len(unfiltered) = 0 THEN Nil
                 ELSE nearestATMLoop(unfiltered, chain_.UnderlyingPrice,
                                     Nil, MaxFloat64)

\* clock is what time.Now and time.Until read during the call, taken as one
\* instant
SelectTargetContract(chain_, clock) ==
    LET bestExpiry == bestExpiryLoop(chain_.ExpirationDates, clock, 0, MaxFloat64)
    IN  IF bestExpiry = 0 THEN Nil
        ELSE LET expiryPuts == expiryPutsOf(chain_, bestExpiry)
                 filtered_ == FilterContracts(expiryPuts, chain_.UnderlyingPrice,
                                              clock)
             IN  IF Len(filtered_) = 0 THEN Nil
                 ELSE nearestATMLoop(filtered_, chain_.UnderlyingPrice,
                                     Nil, MaxFloat64)

----------------------------------------------------------------------------
(* Composite scorer *)

WeightVIX == Q(20, 100)

WeightIVRank == Q(25, 100)

WeightRSI == Q(20, 100)

WeightPutCallRatio == Q(15, 100)

WeightPremiumYield == Q(20, 100)

\* SignalOutput{}: Go's zero value
ZeroOutput ==
    [VIXScore |-> F(0), IVRankScore |-> F(0), RSIScore |-> F(0),
     PutCallRatioScore |-> F(0), PremiumYieldScore |-> F(0),
     CompositeScore |-> F(0),
     RawVIX |-> F(0), RawIVRank |-> F(0), RawRSI |-> F(0),
     RawPutCallRatio |-> F(0), RawPremiumYield |-> F(0),
     Signal |-> ""]

\* weighSignals counting an undefined score as 0 instead of skipping it
RECURSIVE weighSignalsNaNAsZero(_, _, _, _)
weighSignalsNaNAsZero(signals, i, totalWeight, weightedSum) ==
    IF i > Len(signals) THEN <<totalWeight, weightedSum>>
    ELSE IF IsNaN(signals[i].score)
         THEN weighSignalsNaNAsZero(signals, i + 1,
                  RAdd(totalWeight, signals[i].weight), weightedSum)
         ELSE weighSignalsNaNAsZero(signals, i + 1,
                  RAdd(totalWeight, signals[i].weight),
                  RAdd(weightedSum, RMul(signals[i].weight, signals[i].score)))

\* The re-weighting loop over signals: <<totalWeight, weightedSum>>
RECURSIVE weighSignals(_, _, _, _)
weighSignals(signals, i, totalWeight, weightedSum) ==
    IF i > Len(signals) THEN <<totalWeight, weightedSum>>
    ELSE IF IsNaN(signals[i].score)
         THEN weighSignals(signals, i + 1, totalWeight, weightedSum)
         ELSE weighSignals(signals, i + 1,
                  RAdd(totalWeight, signals[i].weight),
                  RAdd(weightedSum, RMul(signals[i].weight, signals[i].score)))

\* signalString with ">= 70" for "> 70"
signalStringGe70(composite) ==
    IF RGe(composite, F(70)) THEN "STRONG"
    ELSE IF RGe(composite, F(50)) THEN "MODERATE"
    ELSE "WEAK"

\* the switch on out.CompositeScore
signalString(composite) ==
    IF RGt(composite, F(70)) THEN "STRONG"
    ELSE IF RGe(composite, F(50)) THEN "MODERATE"
    ELSE "WEAK"

\* ivRankScoreOf without the IsNaN test: the score of NaN is 100
ivRankScoreOfUnchecked(ivRank) == ScoreIVRank(ivRank)

\* "var ivRankScore float64; if math.IsNaN(ivRank) ..."
ivRankScoreOf(ivRank) == IF IsNaN(ivRank) THEN NaN ELSE ScoreIVRank(ivRank)

\* "var rsiScore float64; if math.IsNaN(rsi) ..."
rsiScoreOf(r) == IF IsNaN(r) THEN NaN ELSE ScoreRSI(r)

\* "if totalWeight > 0 { out.CompositeScore = weightedSum / totalWeight }":
\* the field keeps its zero value otherwise
compositeOf(totalWeight, weightedSum) ==
    IF RGt(totalWeight, F(0)) THEN RDiv(weightedSum, totalWeight) ELSE F(0)

\* the put/call ratio, divided whatever the call volume is
pcrOfUnguarded(totalPutVolume, totalCallVolume) == RDiv(totalPutVolume, totalCallVolume)

\* "pcr := 0.0; if input.TotalCallVolume > 0 { pcr = ... / ... }"
pcrOf(totalPutVolume, totalCallVolume) ==
    IF RGt(totalCallVolume, F(0)) THEN RDiv(totalPutVolume, totalCallVolume) ELSE F(0)

ComputeSignals(in) ==
    LET ivRank == CalculateIVRank(in.CurrentIV, in.IVLow52w, in.IVHigh52w)
        rsiRaw == CalculateRSI(in.ClosingPrices)
        pcr == pcrOf(in.TotalPutVolume, in.TotalCallVolume)
        premYield == CalculatePremiumYield(in.PutPremium, in.StrikePrice, in.DTE)
        vixScore == ScoreVIX(in.VIX)
        ivRankScore == ivRankScoreOf(ivRank)
        rsiScore == rsiScoreOf(rsiRaw)
        pcrScore == ScorePutCallRatio(pcr)
        premScore == ScorePremiumYield(premYield)
        signals == << [weight |-> WeightVIX, score |-> vixScore],
                      [weight |-> WeightIVRank, score |-> ivRankScore],
                      [weight |-> WeightRSI, score |-> rsiScore],
                      [weight |-> WeightPutCallRatio, score |-> pcrScore],
                      [weight |-> WeightPremiumYield, score |-> premScore] >>
        w == weighSignals(signals, 1, F(0), F(0))
        composite == compositeOf(w[1], w[2])
    IN  [VIXScore |-> vixScore, IVRankScore |-> ivRankScore, RSIScore |-> rsiScore,
         PutCallRatioScore |-> pcrScore, PremiumYieldScore |-> premScore,
         CompositeScore |-> composite,
         RawVIX |-> in.VIX, RawIVRank |-> ivRank, RawRSI |-> rsiRaw,
         RawPutCallRatio |-> pcr, RawPremiumYield |-> premYield,
         Signal |-> signalString(composite)]

----------------------------------------------------------------------------
(* Bounds of the checked inputs *)

MaxRaw == 110        \* raw metrics run over the quarters in -MaxRaw/4 .. MaxRaw
MaxChange == 2       \* a daily change is a number of half points in -MaxChange .. MaxChange
MaxCloses == 17      \* CalculateRSI is given 0 .. MaxCloses closes
MaxSignalCloses == 16 \* the longest price history given to ComputeSignals
MaxVixStep == 6      \* VIX runs over 10, 15, .. , 5 * MaxVixStep
MaxIVStep == 5       \* the current IV runs over 0.2 .. MaxIVStep / 10
MaxPutVolume == 3    \* the put volume runs over 0, 50, .. , 50 * MaxPutVolume
MaxPremium == 2      \* the put premium runs over 0, 3, .. , 3 * MaxPremium

RECURSIVE SumTo(_, _)
SumTo(f, n) == IF n = 0 THEN 0 ELSE f[n] + SumTo(f, n - 1)

\* The price series of `len` closes that starts at 100 and moves by the two
\* changes of `motif` (in half points) in turn for its first `period`
\* changes, then by the changes of `tail`.
Closes(len, motif, tail) ==
    LET change == [j \in 1..(len - 1) |->
                     IF j <= period THEN motif[((j - 1) % 2) + 1] ELSE tail[j - period]]
    IN  [i \in 1..len |-> Q(200 + SumTo(change, i - 1), 2)]

Changes == (-MaxChange)..MaxChange

TailLen(len) == IF len > period + 1 THEN len - (period + 1) ELSE 0

RawGrid == {Q(n, 4) : n \in (-MaxRaw)..(4 * MaxRaw)}

\* the lengths and the motifs of the price histories given to ComputeSignals
SignalLengths == {0, period, period + 1, MaxSignalCloses}

SignalMotifs == {<<2, 2>>, <<-1, -1>>, <<0, 0>>, <<2, -3>>}

\* <<TotalPutVolume, TotalCallVolume>>
SignalVolumes ==
    {<<F(50 * k), F(100)>> : k \in 0..MaxPutVolume} \cup {<<F(50), F(0)>>}

\* <<PutPremium, StrikePrice, DTE>>
SignalContracts ==
    {<<F(3 * k), F(100), 73>> : k \in 0..MaxPremium}
        \cup {<<F(3), F(0), 73>>, <<F(3), F(100), 0>>}

\* <<IVLow52w, IVHigh52w>>
SignalIVRanges == {<<Q(2, 10), Q(4, 10)>>, <<Q(3, 10), Q(3, 10)>>, <<Q(3, 10), Q(4, 10)>>}

----------------------------------------------------------------------------
(* The variables of the specifications that are not running *)

CalcIdle == calcArgs = <<>> /\ calcRet = <<0, 1>> /\ calcPc = "idle"

FilterIdle == filterIn = <<>> /\ filtered = <<>> /\ filterPc = "idle"

SelectIdle ==
    chain = <<>> /\ now = 0 /\ target = <<>> /\ selectedAt = 0 /\ selectPc = "off"

RefreshIdle ==
    /\ fetched = <<>> /\ cspWatchlist = <<>> /\ quotes = <<>>
    /\ cspScores = <<>> /\ cspContractInfo = <<>> /\ cspTable = <<>>
    /\ refreshPc = "idle"

DbIdle == watchlistTable = {} /\ dbNextId = 0 /\ dbRet = <<>> /\ dbLastOk = <<>>

ChartIdle == chartResp = <<>> /\ chartRet = <<>> /\ chartPc = "idle"

QuoteIdle ==
    /\ quoteReq = <<>> /\ gPc = <<>> /\ gQuote = <<>> /\ mu = 0 /\ wg = 0
    /\ quotesMap = <<>> /\ getPc = "idle" /\ getRet = <<>>

OptIdle ==
    optResp = <<>> /\ optRet = <<>> /\ optClock = 0 /\ optTarget = <<>> /\ optPc = "idle"

IoIdle == DbIdle /\ ChartIdle /\ QuoteIdle /\ OptIdle

----------------------------------------------------------------------------
(* Spec: one call of ComputeSignals *)

Init ==
    /\ \E k \in 2..MaxVixStep, iv \in 2..MaxIVStep, r \in SignalIVRanges,
          len \in SignalLengths, motif \in SignalMotifs,
          v \in SignalVolumes, c \in SignalContracts :
            input = [VIX |-> F(5 * k),
                     CurrentIV |-> Q(iv, 10), IVLow52w |-> r[1], IVHigh52w |-> r[2],
                     ClosingPrices |->
                         Closes(len, motif, <<motif[1], motif[2], motif[1], motif[2]>>),
                     TotalPutVolume |-> v[1], TotalCallVolume |-> v[2],
                     PutPremium |-> c[1], StrikePrice |-> c[2], DTE |-> c[3]]
    /\ out = ZeroOutput
    /\ pc = "call"
    /\ scorer = "none" /\ raw = F(0) /\ score = F(0)
    /\ closes = <<>> /\ rsi = F(0) /\ rsiPc = "idle"
    /\ CalcIdle /\ FilterIdle /\ SelectIdle /\ RefreshIdle /\ IoIdle

CallComputeSignals ==
    /\ pc = "call"
    /\ out' = ComputeSignals(input)
    /\ pc' = "done"
    /\ UNCHANGED <<input, scorer, raw, score, closes, rsi, rsiPc>>
    /\ UNCHANGED <<calcVars, filterVars, selectVars, refreshVars, ioVars>>

Next == CallComputeSignals

Spec == Init /\ [][Next]_vars

----------------------------------------------------------------------------
(* SpecScore: one call of one scorer *)

InitScore ==
    /\ scorer = "none" /\ raw \in RawGrid /\ score = F(0)
    /\ input = <<>> /\ out = ZeroOutput /\ pc = "idle"
    /\ closes = <<>> /\ rsi = F(0) /\ rsiPc = "idle"
    /\ CalcIdle /\ FilterIdle /\ SelectIdle /\ RefreshIdle /\ IoIdle

CallScore(name, s) ==
    /\ scorer = "none"
    /\ scorer' = name
    /\ score' = s
    /\ UNCHANGED <<raw, input, out, pc, closes, rsi, rsiPc>>
    /\ UNCHANGED <<calcVars, filterVars, selectVars, refreshVars, ioVars>>

CallScoreVIX == CallScore("ScoreVIX", ScoreVIX(raw))

CallScoreIVRank == CallScore("ScoreIVRank", ScoreIVRank(raw))

CallScoreRSI == CallScore("ScoreRSI", ScoreRSI(raw))

CallScorePutCallRatio == CallScore("ScorePutCallRatio", ScorePutCallRatio(raw))

CallScorePremiumYield == CallScore("ScorePremiumYield", ScorePremiumYield(raw))

NextScore ==
    \/ CallScoreVIX
    \/ CallScoreIVRank
    \/ CallScoreRSI
    \/ CallScorePutCallRatio
    \/ CallScorePremiumYield

SpecScore == InitScore /\ [][NextScore]_vars

----------------------------------------------------------------------------
(* SpecRSI: one call of CalculateRSI *)

InitRSI ==
    /\ \E len \in 0..MaxCloses, motif \in Changes \X Changes :
          \E tail \in [1..TailLen(len) -> Changes] :
              closes = Closes(len, motif, tail)
    /\ rsi = F(0) /\ rsiPc = "call"
    /\ input = <<>> /\ out = ZeroOutput /\ pc = "idle"
    /\ scorer = "none" /\ raw = F(0) /\ score = F(0)
    /\ CalcIdle /\ FilterIdle /\ SelectIdle /\ RefreshIdle /\ IoIdle

CallCalculateRSI ==
    /\ rsiPc = "call"
    /\ rsi' = CalculateRSI(closes)
    /\ rsiPc' = "done"
    /\ UNCHANGED <<closes, input, out, pc, scorer, raw, score>>
    /\ UNCHANGED <<calcVars, filterVars, selectVars, refreshVars, ioVars>>

NextRSI == CallCalculateRSI

SpecRSI == InitRSI /\ [][NextRSI]_vars

----------------------------------------------------------------------------
(* Claims about ComputeSignals, checked under Spec *)

\* the five sub-scores of the output, in the order VIX, IV rank, RSI,
\* put/call ratio, premium yield
SubScores(o) ==
    <<o.VIXScore, o.IVRankScore, o.RSIScore, o.PutCallRatioScore, o.PremiumYieldScore>>

\* the documented weights 0.20 / 0.25 / 0.20 / 0.15 / 0.20, in hundredths
DocWeights == <<20, 25, 20, 15, 20>>

Defined(o) == {i \in 1..5 : ~IsNaN(SubScores(o)[i])}

RECURSIVE SumOver(_, _)
SumOver(f, S) ==
    IF S = {} THEN F(0)
    ELSE LET i == CHOOSE j \in S : TRUE
         IN  RAdd(f[i], SumOver(f, S \ {i}))

\* C1: the composite is the weighted mean of the defined sub-scores, the
\* weights being 0.20/0.25/0.20/0.15/0.20: an undefined sub-score is left out
\* of the numerator and of the denominator.
C1_ReweightedComposite ==
    pc = "done" =>
        LET D   == Defined(out)
            num == SumOver([i \in 1..5 |-> RMul(F(DocWeights[i]), SubScores(out)[i])], D)
            den == SumOver([i \in 1..5 |-> F(DocWeights[i])], D)
        IN  /\ den # F(0)
            /\ RMul(out.CompositeScore, den) = num

\* C1 witness: a call whose IV rank is undefined, whose RSI score is defined
\* and positive, and whose composite is above 55.
C1_Witness ==
    /\ pc = "done"
    /\ IsNaN(out.IVRankScore)
    /\ ~IsNaN(out.RSIScore)
    /\ RGt(out.RSIScore, F(0))
    /\ RGt(out.CompositeScore, F(55))

\* C2: the label is STRONG exactly for a composite above 70, MODERATE
\* exactly for a composite in [50, 70], WEAK exactly below 50.
C2_SignalLabel ==
    pc = "done" =>
        LET n == out.CompositeScore[1]
            d == out.CompositeScore[2]
        IN  /\ d > 0
            /\ out.Signal \in {"STRONG", "MODERATE", "WEAK"}
            /\ (out.Signal = "STRONG") <=> (n > 70 * d)
            /\ (out.Signal = "MODERATE") <=> (50 * d <= n /\ n <= 70 * d)
            /\ (out.Signal = "WEAK") <=> (n < 50 * d)

\* C2 witness: a composite of exactly 70 is labelled MODERATE.
C2_Witness ==
    /\ pc = "done"
    /\ out.CompositeScore = F(70)
    /\ out.Signal = "MODERATE"

InRange0to100(x) == x[2] > 0 /\ 0 <= x[1] /\ x[1] <= 100 * x[2]

\* C3: every defined sub-score of the output, and the composite, is in [0, 100].
C3_ScoresInRange ==
    pc = "done" =>
        /\ \A i \in Defined(out) : InRange0to100(SubScores(out)[i])
        /\ InRange0to100(out.CompositeScore)

\* C3 witness: a call whose raw IV rank is above 100 and whose raw RSI is
\* above 70, so that both scores sit on a clamp.
C3_Witness ==
    /\ pc = "done"
    /\ ~IsNaN(out.RawIVRank) /\ RGt(out.RawIVRank, F(100))
    /\ out.IVRankScore = F(100)
    /\ ~IsNaN(out.RawRSI) /\ RGt(out.RawRSI, F(70))
    /\ out.RSIScore = F(0)

\* C4: the IV-rank score and raw IV rank are undefined exactly when
\* ivHigh52w = ivLow52w, the RSI score and raw RSI exactly when fewer than 15
\* closes are supplied; the other three scores are always defined.
C4_UndefinedExactly ==
    pc = "done" =>
        /\ IsNaN(out.IVRankScore) <=> (input.IVHigh52w = input.IVLow52w)
        /\ IsNaN(out.RawIVRank) <=> (input.IVHigh52w = input.IVLow52w)
        /\ IsNaN(out.RSIScore) <=> (Len(input.ClosingPrices) < 15)
        /\ IsNaN(out.RawRSI) <=> (Len(input.ClosingPrices) < 15)
        /\ ~IsNaN(out.VIXScore)
        /\ ~IsNaN(out.PutCallRatioScore)
        /\ ~IsNaN(out.PremiumYieldScore)

\* C4 witness: a call with a zero IV range and 14 closes: both optional
\* scores come back undefined.
C4_Witness ==
    /\ pc = "done"
    /\ input.IVHigh52w = input.IVLow52w
    /\ Len(input.ClosingPrices) = 14
    /\ IsNaN(out.IVRankScore) /\ IsNaN(out.RSIScore)

\* the inputs of C5: both optional signals undefined, the other three at
\* their zero-score values
C5_Case ==
    /\ input.IVHigh52w = input.IVLow52w
    /\ Len(input.ClosingPrices) < 15
    /\ RLe(input.VIX, F(15))
    /\ RLe(out.RawPutCallRatio, Q(1, 2))
    /\ RLe(out.RawPremiumYield, F(0))

\* C5: with both optional signals undefined and VIX <= 15, put/call ratio
\* <= 0.5, premium yield <= 0, the composite is exactly 0 and the label WEAK;
\* and a call in which no sub-score is defined has composite 0, not undefined.
C5_AllZeroFallback ==
    pc = "done" =>
        /\ C5_Case => (out.CompositeScore = F(0) /\ out.Signal = "WEAK")
        /\ Defined(out) = {} => out.CompositeScore = F(0)
        /\ ~IsNaN(out.CompositeScore)

\* C5 witness: such a call, with VIX, put/call ratio and premium yield the
\* only defined scores.
C5_Witness ==
    /\ pc = "done"
    /\ C5_Case
    /\ Defined(out) = {1, 4, 5}
    /\ out.CompositeScore = F(0)

----------------------------------------------------------------------------
(* Claims about the scorers, checked under SpecScore *)

\* the documented control points of each scorer, by increasing raw value
ControlPoints(name) ==
    CASE name = "ScoreVIX" ->
            <<<<F(15), F(0)>>, <<F(20), F(50)>>, <<F(30), F(100)>>>>
      [] name = "ScoreIVRank" ->
            <<<<F(0), F(0)>>, <<F(50), F(50)>>, <<F(100), F(100)>>>>
      [] name = "ScoreRSI" ->
            <<<<F(20), F(100)>>, <<F(40), F(50)>>, <<F(70), F(0)>>>>
      [] name = "ScorePutCallRatio" ->
            <<<<Q(1, 2), F(0)>>, <<F(1), F(50)>>, <<Q(3, 2), F(100)>>>>
      [] name = "ScorePremiumYield" ->
            <<<<F(0), F(0)>>, <<F(15), F(50)>>, <<F(30), F(100)>>>>

\* the point (x, y) is on the line through the points a and b
OnLine(x, y, a, b) ==
    RMul(RSub(y, a[2]), RSub(b[1], a[1])) = RMul(RSub(x, a[1]), RSub(b[2], a[2]))

\* y is the value at x of the piecewise-linear function through the three
\* points of P, constant beyond the outer points
OnPiecewise(x, y, P) ==
    IF RLe(x, P[1][1]) THEN y = P[1][2]
    ELSE IF RGe(x, P[3][1]) THEN y = P[3][2]
    ELSE IF RLe(x, P[2][1]) THEN OnLine(x, y, P[1], P[2])
    ELSE OnLine(x, y, P[2], P[3])

\* C6: each scorer is the piecewise-linear function through its three
\* control points: the control scores at the control points, linear in
\* between, the outer score beyond an outer control point.
C6_ScorersPiecewiseLinear ==
    scorer # "none" => OnPiecewise(raw, score, ControlPoints(scorer))

\* C6 witness: ScorePutCallRatio(1.25) = 75, inside the upper segment.
C6_Witness ==
    /\ scorer = "ScorePutCallRatio"
    /\ raw = Q(5, 4)
    /\ score = F(75)

\* C7: ScoreRSI never rises with the RSI, is 0 from 70 on and 100 up to 20.
C7_ScoreRSIMonotone ==
    scorer = "ScoreRSI" =>
        /\ \A b \in RawGrid : RLe(raw, b) => RGe(score, ScoreRSI(b))
        /\ RGe(raw, F(70)) => score = F(0)
        /\ RLe(raw, F(20)) => score = F(100)

\* C7 witness: ScoreRSI(30) = 75, and a higher RSI has a strictly lower score.
C7_Witness ==
    /\ scorer = "ScoreRSI"
    /\ raw = F(30)
    /\ score = F(75)
    /\ \E b \in RawGrid : RLt(raw, b) /\ RLt(ScoreRSI(b), score)

----------------------------------------------------------------------------
(* Claims about CalculateRSI, checked under SpecRSI *)

\* C8: CalculateRSI is undefined exactly for the series of fewer than 15 closes.
C8_RSIUndefinedBelow15 ==
    rsiPc = "done" => (IsNaN(rsi) <=> Len(closes) < 15)

\* C8 witness: a series of 14 closes, for which the result is undefined.
C8_Witness ==
    /\ rsiPc = "done"
    /\ Len(closes) = 14
    /\ IsNaN(rsi)

\* the k-th change of a series
ChangeAt(cl, k) == RSub(cl[k + 1], cl[k])

Gain(c) == IF RGt(c, F(0)) THEN c ELSE F(0)

Loss(c) == IF RLt(c, F(0)) THEN RNeg(c) ELSE F(0)

\* Wilder's average of the gains (side = "gain") or of the losses after the
\* first n changes, n >= 14
RECURSIVE WilderAvg(_, _, _)
WilderAvg(cl, n, side) ==
    LET v(k) == IF side = "gain" THEN Gain(ChangeAt(cl, k)) ELSE Loss(ChangeAt(cl, k))
    IN  IF n = 14
        THEN RDiv(SumOver([k \in 1..14 |-> v(k)], 1..14), F(14))
        ELSE RDiv(RAdd(RMul(WilderAvg(cl, n - 1, side), F(13)), v(n)), F(14))

WilderRSI(cl) ==
    LET avgGain == WilderAvg(cl, Len(cl) - 1, "gain")
        avgLoss == WilderAvg(cl, Len(cl) - 1, "loss")
    IN  IF avgLoss = F(0) THEN F(100)
        ELSE RSub(F(100), RDiv(F(100), RAdd(F(1), RDiv(avgGain, avgLoss))))

\* C9: for a series of at least 15 closes CalculateRSI is Wilder's index.
C9_RSIIsWilder ==
    (rsiPc = "done" /\ Len(closes) >= 15) => rsi = WilderRSI(closes)

\* C9 witness: a series of 17 closes whose two smoothed changes are a gain
\* and a loss, with an index strictly between 0 and 100.
C9_Witness ==
    /\ rsiPc = "done"
    /\ Len(closes) = 17
    /\ RGt(ChangeAt(closes, 15), F(0))
    /\ RLt(ChangeAt(closes, 16), F(0))
    /\ RGt(rsi, F(0)) /\ RLt(rsi, F(100))

\* C10: for a series of at least 15 closes the index is in [0, 100], and it
\* is exactly 100 when no change of the series is a decline.
C10_RSIInRange ==
    (rsiPc = "done" /\ Len(closes) >= 15) =>
        /\ InRange0to100(rsi)
        /\ (\A k \in 1..(Len(closes) - 1) : RGe(ChangeAt(closes, k), F(0)))
               => rsi = F(100)

\* C10 witness: an entirely flat series of 16 closes or more, with index 100.
C10_Witness ==
    /\ rsiPc = "done"
    /\ Len(closes) >= 16
    /\ \A k \in 1..(Len(closes) - 1) : ChangeAt(closes, k) = F(0)
    /\ rsi = F(100)


----------------------------------------------------------------------------
(* SpecCalc: one call of CalculateIVRank, CalculatePremiumYield or *)
(* CalculateDelta *)

MaxRankStep == 4     \* the arguments of CalculateIVRank run over 0, 10, .. , 10 * MaxRankStep
MaxYieldStep == 2    \* premium runs over 0, 1.5, .. , and strike over 0, 50, .. , 50 * MaxYieldStep
MaxDTE == 60         \* dte runs over -1 .. MaxDTE

InitCalc ==
    /\ \/ \E a, b, c \in 0..MaxRankStep :
            calcArgs = [fn |-> "CalculateIVRank", current |-> F(10 * a),
                        low52w |-> F(10 * b), high52w |-> F(10 * c)]
       \/ \E p, k \in 0..MaxYieldStep, d \in -1..MaxDTE :
            calcArgs = [fn |-> "CalculatePremiumYield", premium |-> Q(3 * p, 2),
                        strike |-> F(50 * k), dte |-> d]
       \/ \E S \in {F(-100), F(0), DeltaUnderlying},
             K \in {F(-95), F(0)} \cup DeltaStrikes,
             iv \in {Q(-3, 10), F(0)} \cup DeltaIVs, d \in -1..MaxDTE :
            calcArgs = [fn |-> "CalculateDelta", S |-> S, K |-> K, iv |-> iv, dte |-> d]
    /\ calcRet = F(0) /\ calcPc = "call"
    /\ input = <<>> /\ out = ZeroOutput /\ pc = "idle"
    /\ scorer = "none" /\ raw = F(0) /\ score = F(0)
    /\ closes = <<>> /\ rsi = F(0) /\ rsiPc = "idle"
    /\ FilterIdle /\ SelectIdle /\ RefreshIdle /\ IoIdle

CallCalc(fn, ret) ==
    /\ calcPc = "call"
    /\ calcArgs.fn = fn
    /\ calcRet' = ret
    /\ calcPc' = "done"
    /\ UNCHANGED <<calcArgs, scoringVars, filterVars, selectVars, refreshVars, ioVars>>

CallCalculateIVRank ==
    CallCalc("CalculateIVRank",
             CalculateIVRank(calcArgs.current, calcArgs.low52w, calcArgs.high52w))

CallCalculatePremiumYield ==
    CallCalc("CalculatePremiumYield",
             CalculatePremiumYield(calcArgs.premium, calcArgs.strike, calcArgs.dte))

CallCalculateDelta ==
    CallCalc("CalculateDelta",
             CalculateDelta(calcArgs.S, calcArgs.K, calcArgs.iv, calcArgs.dte))

NextCalc ==
    \/ CallCalculateIVRank
    \/ CallCalculatePremiumYield
    \/ CallCalculateDelta

SpecCalc == InitCalc /\ [][NextCalc]_vars

----------------------------------------------------------------------------
(* Claims about the calculators, checked under SpecCalc *)

Called(fn) == calcPc = "done" /\ calcArgs.fn = fn

\* C11: CalculateIVRank(current, low, high) is undefined for every current
\* when high = low, and is (current - low) / (high - low) * 100 when
\* high # low: 50 for 30, 20, 40.
C11_IVRankOfRange ==
    Called("CalculateIVRank") =>
        LET a == calcArgs
        IN  IF a.high52w = a.low52w THEN IsNaN(calcRet)
            ELSE /\ ~IsNaN(calcRet)
                 /\ RMul(calcRet, RSub(a.high52w, a.low52w))
                        = RMul(RSub(a.current, a.low52w), F(100))

C11_Witness ==
    /\ Called("CalculateIVRank")
    /\ calcArgs.current = F(30) /\ calcArgs.low52w = F(20) /\ calcArgs.high52w = F(40)
    /\ calcRet = F(50)

\* C12: CalculatePremiumYield returns 0 whenever strike is 0 or dte is 0, and
\* (premium / strike) * (365 / dte) * 100 otherwise; it never divides by
\* zero, so its result is never an infinity or NaN.
C12_PremiumYieldGuarded ==
    Called("CalculatePremiumYield") =>
        LET a == calcArgs
        IN  /\ ~IsNaN(calcRet) /\ ~IsInf(calcRet)
            /\ IF a.strike = F(0) \/ a.dte = 0 THEN calcRet = F(0)
               ELSE RMul(RMul(calcRet, a.strike), F(a.dte))
                        = RMul(RMul(a.premium, F(365)), F(100))

C12_Witness ==
    /\ Called("CalculatePremiumYield")
    /\ calcArgs.premium = Q(3, 2) /\ calcArgs.strike = F(100) /\ calcArgs.dte = 0
    /\ calcRet = F(0)

\* C13: CalculateDelta(S, K, iv, dte) returns exactly 0 whenever any of S, K,
\* iv, dte is not positive; for positive arguments it returns a put delta,
\* never positive and never below -1.
C13_DeltaOfPut ==
    Called("CalculateDelta") =>
        LET a == calcArgs
        IN  IF RLe(a.S, F(0)) \/ RLe(a.K, F(0)) \/ RLe(a.iv, F(0)) \/ a.dte <= 0
            THEN calcRet = F(0)
            ELSE RLe(calcRet, F(0)) /\ RGe(calcRet, F(-1))

C13_Witness ==
    /\ Called("CalculateDelta")
    /\ calcArgs.S = F(100) /\ calcArgs.K = F(95) /\ calcArgs.iv = Q(3, 10)
    /\ calcArgs.dte = 30
    /\ calcRet = Q(-2460, 10000)

----------------------------------------------------------------------------
(* SpecFilter: one call of FilterContracts *)

MaxContracts == 2    \* FilterContracts is given 0 .. MaxContracts contracts

\* a put of strike 95 and volatility 0.3 expiring on day 30, by its quotes
Quoted(bid, ask, volume, openInterest) ==
    Contract(F(95), bid, ask, volume, openInterest, Q(3, 10), 60)

\* a well-quoted put, by its strike, volatility and expiration
Traded(strike, iv, expiration) ==
    Contract(strike, Q(3, 2), Q(8, 5), 100, 200, iv, expiration)

\* contracts on either side of every test of the filter
FilterContractsPalette ==
    {Quoted(Q(3, 2), Q(8, 5), v, 200) : v \in {9, 10}}
        \cup {Quoted(Q(3, 2), Q(8, 5), 100, oi) : oi \in {9, 10}}
        \cup {Quoted(Q(9, 100), Q(10, 100), 100, 200),
              Quoted(Q(10, 100), Q(11, 100), 100, 200),
              Quoted(Q(10, 100), Q(-10, 100), 100, 200),
              Quoted(F(37), F(43), 100, 200),
              Quoted(F(37), F(44), 100, 200)}
        \cup {Traded(F(90), Q(3, 10), 60), Traded(F(105), Q(3, 10), 60),
              Traded(F(101), Q(6, 10), 60), Traded(F(99), F(0), 60),
              Traded(F(99), Q(6, 10), 10)}

\* the clock readings: day 0, half a day later, day 9.5
FilterClocks == {0, 1, 19}

InitFilter ==
    /\ \E n \in 0..MaxContracts, u \in {F(0), DeltaUnderlying}, t \in FilterClocks :
          \E cs \in [1..n -> FilterContractsPalette] :
              filterIn = [contracts |-> cs, underlyingPrice |-> u, clock |-> t]
    /\ filtered = <<>> /\ filterPc = "call"
    /\ input = <<>> /\ out = ZeroOutput /\ pc = "idle"
    /\ scorer = "none" /\ raw = F(0) /\ score = F(0)
    /\ closes = <<>> /\ rsi = F(0) /\ rsiPc = "idle"
    /\ CalcIdle /\ SelectIdle /\ RefreshIdle /\ IoIdle

CallFilterContracts ==
    /\ filterPc = "call"
    /\ filtered' = FilterContracts(filterIn.contracts, filterIn.underlyingPrice,
                                   filterIn.clock)
    /\ filterPc' = "done"
    /\ UNCHANGED <<filterIn, scoringVars, calcVars, selectVars, refreshVars, ioVars>>

NextFilter == CallFilterContracts

SpecFilter == InitFilter /\ [][NextFilter]_vars

----------------------------------------------------------------------------
(* Claims about FilterContracts, checked under SpecFilter *)

\* the delta computed for contract c: the underlying price, the strike, the
\* volatility and the whole days to expiration
ComputedDelta(c, underlyingPrice, clock) ==
    CalculateDelta(underlyingPrice, c.Strike, c.ImpliedVolatility,
                   IF c.Expiration > clock THEN (c.Expiration - clock) \div 2 ELSE 0)

\* the six criteria of the claim
Acceptable(c, underlyingPrice, clock) ==
    LET mid == RDiv(RAdd(c.Bid, c.Ask), F(2))
        delta == ComputedDelta(c, underlyingPrice, clock)
    IN  /\ c.Volume >= 10
        /\ c.OpenInterest >= 10
        /\ RGe(c.Bid, Q(10, 100))
        /\ RGt(mid, F(0))
        /\ RLe(RSub(c.Ask, c.Bid), RMul(Q(15, 100), mid))
        /\ RGe(delta, Q(-50, 100)) /\ RLe(delta, Q(-20, 100))

\* the contracts of cs that are acceptable, in the order of cs, each with
\* its computed delta
AcceptableOf(cs, underlyingPrice, clock) ==
    LET Test(c) == Acceptable(c, underlyingPrice, clock)
        kept == SelectSeq(cs, Test)
    IN  [i \in 1..Len(kept) |->
            [kept[i] EXCEPT !.Delta = ComputedDelta(kept[i], underlyingPrice, clock)]]

\* C14: FilterContracts returns exactly the input contracts, in input order,
\* that satisfy volume >= 10, open interest >= 10, bid >= 0.10,
\* mid = (bid + ask) / 2 > 0, (ask - bid) / mid <= 0.15 and a computed delta
\* in [-0.50, -0.20]; a contract failing any one of them is absent, and every
\* returned contract carries its computed delta.
C14_FilterKeepsAcceptable ==
    filterPc = "done" =>
        filtered = AcceptableOf(filterIn.contracts, filterIn.underlyingPrice,
                                filterIn.clock)

\* two contracts go in, one on the volume limit and one just under the
\* open-interest limit: the first comes out, with a delta in the band
C14_Witness ==
    /\ filterPc = "done"
    /\ Len(filterIn.contracts) = 2
    /\ filterIn.contracts[1].Volume = 10
    /\ filterIn.contracts[2].OpenInterest = 9
    /\ Len(filtered) = 1
    /\ filtered[1].Volume = 10
    /\ filtered[1].Delta = Q(-2460, 10000)

----------------------------------------------------------------------------
(* SpecSelect: calls of SelectTargetContract on one chain, as time passes *)

MaxPuts == 2         \* the chain holds 0 .. MaxPuts puts
MaxExpirations == 2  \* and lists 0 .. MaxExpirations expiration dates

\* the expiration dates: days 30, 35, 45 and 60
SelectExpirations == {60, 70, 90, 120}

\* the puts: three that pass the filter and one short of volume, on day 30,
\* and one that passes on day 35
SelectPuts ==
    {Traded(F(95), Q(3, 10), 60), Traded(F(99), Q(6, 10), 60),
     Traded(F(101), Q(6, 10), 60),
     Contract(F(99), Q(3, 2), Q(8, 5), 9, 200, Q(6, 10), 60),
     Traded(F(99), Q(6, 10), 70)}

\* the clock readings: day 0, day 9 and day 9.5
SelectClocks == {0, 18, 19}

InitSelect ==
    /\ \E np \in 0..MaxPuts, ne \in 0..MaxExpirations :
          \E ps \in [1..np -> SelectPuts], es \in [1..ne -> SelectExpirations] :
              chain = Chain(DeltaUnderlying, ps, <<>>, es)
    /\ now \in SelectClocks
    /\ target = Nil /\ selectedAt = 0 /\ selectPc = "idle"
    /\ input = <<>> /\ out = ZeroOutput /\ pc = "idle"
    /\ scorer = "none" /\ raw = F(0) /\ score = F(0)
    /\ closes = <<>> /\ rsi = F(0) /\ rsiPc = "idle"
    /\ CalcIdle /\ FilterIdle /\ RefreshIdle /\ IoIdle

CallSelectTargetContract ==
    /\ target' = SelectTargetContract(chain, now)
    /\ selectedAt' = now
    /\ selectPc' = "done"
    /\ UNCHANGED <<chain, now, scoringVars, calcVars, filterVars, refreshVars, ioVars>>

\* time passes
Tick ==
    /\ \E t \in SelectClocks : t > now /\ now' = t
    /\ UNCHANGED <<chain, target, selectedAt, selectPc>>
    /\ UNCHANGED <<scoringVars, calcVars, filterVars, refreshVars, ioVars>>

NextSelect ==
    \/ CallSelectTargetContract
    \/ Tick

SpecSelect == InitSelect /\ [][NextSelect]_vars

----------------------------------------------------------------------------
(* Claims about SelectTargetContract, checked under SpecSelect *)

\* the expiration dates of the chain, as a set
ListedExpirations == {chain.ExpirationDates[i] : i \in DOMAIN chain.ExpirationDates}

\* expiration e is 21 to 45 days after the latest call (in half days)
InWindow(e) == e - selectedAt >= 42 /\ e - selectedAt <= 90

\* twice |DTE - 30| of expiration e at the latest call
DistanceTo30(e) == Abs(e - selectedAt - 60)

\* the expirations of the window at the least distance from 30 days
ClosestExpirations ==
    {e \in ListedExpirations :
        /\ InWindow(e)
        /\ \A f \in ListedExpirations : InWindow(f) => DistanceTo30(e) <= DistanceTo30(f)}

\* the puts of expiration e that pass the contract filter, in chain order
Survivors(e) ==
    LET AtExpiry(p) == p.Expiration = e
    IN  AcceptableOf(SelectSeq(chain.Puts, AtExpiry), chain.UnderlyingPrice, selectedAt)

C17_NoFallback ==
    selectPc = "done" =>
        /\ target = Nil =>
              \/ ClosestExpirations = {}
              \/ \E e \in ClosestExpirations : Len(Survivors(e)) = 0
        /\ target # Nil =>
              /\ target.Expiration \in ClosestExpirations
              /\ \E i \in DOMAIN Survivors(target.Expiration) :
                    Survivors(target.Expiration)[i] = target
        /\ \A e \in ClosestExpirations :
              (ClosestExpirations = {e} /\ Len(Survivors(e)) = 0) => target = Nil

\* day 30 is the closest expiration and has no put that passes, day 35 is
\* in the window and has one: no target
C17_Witness ==
    /\ selectPc = "done" /\ selectedAt = 0
    /\ ClosestExpirations = {60}
    /\ Len(Survivors(60)) = 0
    /\ 70 \in ListedExpirations
    /\ Len(Survivors(70)) > 0
    /\ target = Nil

\* |strike - underlyingPrice| of contract c
StrikeDistance(c) == RAbs(RSub(c.Strike, chain.UnderlyingPrice))

\* C18: among the puts that survive, the one returned has the least
\* |strike - underlyingPrice|; of several at that distance, the one that
\* comes first in chain.puts.
C18_NearestStrikeFirstWins ==
    (selectPc = "done" /\ target # Nil) =>
        LET s == Survivors(target.Expiration)
        IN  \E i \in DOMAIN s :
                /\ s[i] = target
                /\ \A j \in DOMAIN s : RLe(StrikeDistance(s[i]), StrikeDistance(s[j]))
                /\ \A j \in 1..(i - 1) : RLt(StrikeDistance(s[i]), StrikeDistance(s[j]))

\* strikes 101 and 99 of one expiration, in that order, both pass and are
\* equally far from the underlying price of 100: 101 is returned
C18_Witness ==
    /\ selectPc = "done"
    /\ target # Nil
    /\ Len(Survivors(target.Expiration)) = 2
    /\ Survivors(target.Expiration)[1].Strike = F(101)
    /\ Survivors(target.Expiration)[2].Strike = F(99)
    /\ target.Strike = F(101)

\* C16: whenever SelectTargetContract returns a contract, its days to
\* expiration lie within the fixed 30-45 DTE window; no contract expiring in
\* fewer than 30 days is ever selected.
C16_ThirtyToFortyFiveDays ==
    (selectPc = "done" /\ target # Nil) =>
        /\ target.Expiration - selectedAt >= 60
        /\ target.Expiration - selectedAt <= 90

\* C19: every engine function is deterministic in its arguments: two calls
\* with identical arguments return identical outputs, the selected contract
\* included, regardless of when the calls are made or which calls happened
\* in between.  Stated of SelectTargetContract: the chain never changes, so
\* every call after the first returns what the call before it returned.
C19_SameChainSameTarget ==
    [][(selectPc = "done" /\ selectPc' = "done") => target' = target]_vars

----------------------------------------------------------------------------
(* refreshCSPData *)

\* a ContractInfo
ContractInfo(strike, dte, delta) == [Strike |-> strike, DTE |-> dte, Delta |-> delta]

\* the map m after m[k] = v
MapSet(m, k, v) == [x \in (DOMAIN m) \cup {k} |-> IF x = k THEN v ELSE m[x]]

\* a map without keys
EmptyMap == <<>>

\* the implied volatilities of the puts that are above 0, in order
allIVsOf(puts) ==
    LET Positive(p) == RGt(p.ImpliedVolatility, F(0))
        withIV == SelectSeq(puts, Positive)
    IN  [i \in 1..Len(withIV) |-> withIV[i].ImpliedVolatility]

\* the loop without its two comparisons: both ends are the last volatility
ivRangeLoopLastWins(allIVs, ivLow52w, ivHigh52w) ==
    IF allIVs = <<>> THEN <<ivLow52w, ivHigh52w>>
    ELSE <<allIVs[Len(allIVs)], allIVs[Len(allIVs)]>>

\* <<ivLow52w, ivHigh52w>> after the loop over allIVs, from their values before it
RECURSIVE ivRangeLoop(_, _, _)
ivRangeLoop(allIVs, ivLow52w, ivHigh52w) ==
    IF allIVs = <<>> THEN <<ivLow52w, ivHigh52w>>
    ELSE LET iv == Head(allIVs)
         IN  ivRangeLoop(Tail(allIVs),
                         IF RLt(iv, ivLow52w) THEN iv ELSE ivLow52w,
                         IF RGt(iv, ivHigh52w) THEN iv ELSE ivHigh52w)

\* the sum of float64(Volume) over the contracts
RECURSIVE totalVolume(_)
totalVolume(contracts) ==
    IF contracts = <<>> THEN F(0)
    ELSE RAdd(F(Head(contracts).Volume), totalVolume(Tail(contracts)))

\* the SignalInput built for the ticker from its target contract
signalInputOf(f, targetContract, vix, clock) ==
    LET currentIV == targetContract.ImpliedVolatility
        range == ivRangeLoop(allIVsOf(f.optionsData.Puts), currentIV, currentIV)
    IN  [VIX |-> vix,
         CurrentIV |-> currentIV, IVLow52w |-> range[1], IVHigh52w |-> range[2],
         ClosingPrices |-> f.priceHistory,
         TotalPutVolume |-> totalVolume(f.optionsData.Puts),
         TotalCallVolume |-> totalVolume(f.optionsData.Calls),
         PutPremium |-> RDiv(RAdd(targetContract.Bid, targetContract.Ask), F(2)),
         StrikePrice |-> targetContract.Strike,
         DTE |-> daysUntil(targetContract.Expiration, clock)]

\* the end of a turn of the loop, from the selection of the target on:
\* <<cspScores, cspContractInfo>> after it
scoreTicker(scores, info, ticker, targetContract, in) ==
    IF targetContract = Nil THEN <<MapSet(scores, ticker, ZeroOutput), info>>
    ELSE <<MapSet(scores, ticker, ComputeSignals(in)),
           MapSet(info, ticker,
                  ContractInfo(targetContract.Strike, in.DTE, targetContract.Delta))>>

\* one turn of the loop over the watchlist: <<cspScores, cspContractInfo>>
\* after it; f is what the fetches of the ticker gave.  (The target and the
\* input are bound as members of one-element sets, which computes each once.)
refreshTicker(scores, info, ticker, f, vix, clock) ==
    IF f.optionsErr THEN <<MapSet(scores, ticker, ZeroOutput), info>>
    ELSE IF f.historyErr \/ Len(f.priceHistory) < 15
    THEN <<MapSet(scores, ticker, ZeroOutput), info>>
    ELSE CHOOSE after \in
             {scoreTicker(scores, info, ticker, targetContract, in) :
                 <<targetContract, in>> \in
                     {<<t, IF t = Nil THEN Nil ELSE signalInputOf(f, t, vix, clock)>> :
                         t \in {SelectTargetContract(f.optionsData, clock)}}} : TRUE

\* the loop over the watchlist
RECURSIVE refreshLoop(_, _, _, _, _, _)
refreshLoop(scores, info, watchlist, byTicker, vix, clock) ==
    IF watchlist = <<>> THEN <<scores, info>>
    ELSE CHOOSE end \in
             {refreshLoop(after[1], after[2], Tail(watchlist), byTicker, vix, clock) :
                 after \in {refreshTicker(scores, info, Head(watchlist),
                                          byTicker[Head(watchlist)], vix, clock)}} : TRUE

----------------------------------------------------------------------------
(* updateCSPTable: the rows drawn for the watchlist *)

\* a text that is not a formatted number
Text(s) == [s |-> s]

\* n / d rounded to the nearest integer, a half to the even one (d > 0)
roundHalfEven(n, d) ==
    LET q == n \div d
        r == n - q * d
    IN  IF 2 * r > d THEN q + 1
        ELSE IF 2 * r < d THEN q
        ELSE IF q % 2 = 0 THEN q ELSE q + 1

\* fmt.Sprintf of a float64 under a verb of `decimals` decimals: the text is
\* held as the verb and the digits, that is x * 10^decimals rounded
Sprintf(format, decimals, x) ==
    IF IsNaN(x) THEN Text("NaN")
    ELSE IF IsInf(x) THEN Text(IF x[1] > 0 THEN "+Inf" ELSE "-Inf")
    ELSE [format |-> format,
          digits |-> roundHalfEven(x[1] * (IF decimals = 1 THEN 10 ELSE 100), x[2])]

\* fmt.Sprintf("%d", n)
SprintfInt(n) == [format |-> "%d", digits |-> n]

Cell(text, color) == [text |-> text, color |-> color]

NA == Text("N/A")

\* "scoreColor := tcell.ColorRed; if score.CompositeScore >= 70 ..."
scoreColorOf(compositeScore) ==
    IF RGe(compositeScore, F(70)) THEN "Lime"
    ELSE IF RGe(compositeScore, F(50)) THEN "Yellow"
    ELSE "Red"

\* "signalColor := tcell.ColorRed; if score.Signal == "STRONG" ..."
signalColorOf(signal) ==
    IF signal = "STRONG" THEN "Lime"
    ELSE IF signal = "MODERATE" THEN "Yellow"
    ELSE "Red"

\* the cells of columns 0 .. 11 of the row of one watchlist item
rowOf(ticker, scores, info, prices) ==
    LET hasScore == ticker \in DOMAIN scores
        hasQuote == ticker \in DOMAIN prices
        hasContract == ticker \in DOMAIN info
        priceStr == IF hasQuote THEN Sprintf("$%.2f", 2, prices[ticker]) ELSE NA
        head == <<Cell(Text(ticker), "Fuchsia"), Cell(priceStr, "Aqua")>>
    IN  IF ~hasScore THEN head \o [col \in 1..10 |-> Cell(NA, "DimGray")]
        ELSE LET s == scores[ticker]
                 strikeStr == IF hasContract /\ RGt(info[ticker].Strike, F(0))
                              THEN Sprintf("$%.2f", 2, info[ticker].Strike) ELSE NA
                 dteStr == IF hasContract /\ info[ticker].DTE > 0
                           THEN SprintfInt(info[ticker].DTE) ELSE NA
                 deltaStr == IF hasContract /\ info[ticker].Delta # F(0)
                             THEN Sprintf("%.2f", 2, info[ticker].Delta) ELSE NA
                 ivRankStr == IF ~IsNaN(s.RawIVRank)
                              THEN Sprintf("%.1f", 1, s.RawIVRank) ELSE NA
                 rsiStr == IF ~IsNaN(s.RawRSI) THEN Sprintf("%.1f", 1, s.RawRSI) ELSE NA
             IN  head \o
                 <<Cell(strikeStr, "Aqua"),
                   Cell(dteStr, "White"),
                   Cell(deltaStr, "White"),
                   Cell(Sprintf("%.1f", 1, s.CompositeScore), scoreColorOf(s.CompositeScore)),
                   Cell(Sprintf("%.1f", 1, s.RawVIX), "White"),
                   Cell(ivRankStr, "White"),
                   Cell(rsiStr, "White"),
                   Cell(Sprintf("%.2f", 2, s.RawPutCallRatio), "White"),
                   Cell(Sprintf("%.1f%%", 1, s.RawPremiumYield), "White"),
                   Cell(Text(s.Signal), signalColorOf(s.Signal))>>

\* the data rows of the table, one for each item of the watchlist in order
updateCSPTable(watchlist, scores, info, prices) ==
    [i \in 1..Len(watchlist) |-> rowOf(watchlist[i], scores, info, prices)]

----------------------------------------------------------------------------
(* SpecRefresh: one run of refreshCSPData *)

MaxWatchlist == 2    \* the watchlist holds 0 .. MaxWatchlist tickers

WatchlistTickers == <<"AAPL", "MSFT", "NVDA", "TSLA">>

\* what FetchOptionsChain and FetchPriceHistory give for one ticker
Fetch(optionsErr, optionsData, historyErr, priceHistory) ==
    [optionsErr |-> optionsErr, optionsData |-> optionsData,
     historyErr |-> historyErr, priceHistory |-> priceHistory]

\* a call of strike 105
TradedCall == Traded(F(105), Q(3, 10), 60)

\* chains: with a target of the highest of two volatilities, with a target
\* of the lowest of two beside a put without volatility, with a target and
\* one volatility, without an expiration in the window, without a put that
\* passes the filter
RefreshChains ==
    {Chain(DeltaUnderlying,
           <<Traded(F(99), Q(6, 10), 60), Traded(F(95), Q(3, 10), 60)>>,
           <<TradedCall>>, <<60>>),
     Chain(DeltaUnderlying,
           <<Traded(F(90), F(0), 60), Traded(F(99), Q(3, 10), 60),
             Traded(F(95), Q(6, 10), 60)>>,
           <<TradedCall>>, <<60>>),
     Chain(DeltaUnderlying, <<Traded(F(99), Q(6, 10), 60)>>, <<>>, <<60, 120>>),
     Chain(DeltaUnderlying, <<Traded(F(99), Q(6, 10), 60)>>, <<TradedCall>>, <<120>>),
     Chain(DeltaUnderlying,
           <<Contract(F(99), Q(3, 2), Q(8, 5), 9, 200, Q(6, 10), 60)>>,
           <<TradedCall>>, <<60>>)}

\* price histories of 14 and 15 closes
RefreshHistories == {Closes(n, <<2, -3>>, <<>>) : n \in {period, period + 1}}

TickerFetches ==
    {Fetch(TRUE, Chain(F(0), <<>>, <<>>, <<>>), FALSE, <<>>)}
        \cup {Fetch(FALSE, Chain(DeltaUnderlying, <<Traded(F(99), Q(6, 10), 60)>>,
                                <<>>, <<60>>), TRUE, <<>>)}
        \cup {Fetch(FALSE, c, FALSE, h) : c \in RefreshChains, h \in RefreshHistories}

\* what GetQuotes gives for the tickers: a price for each, or nothing
QuotesOf(tickers) == {[t \in tickers |-> F(100)], EmptyMap}

\* the clock readings: day 0 and day 9
RefreshClocks == {0, 18}

InitRefresh ==
    /\ \E n \in 0..MaxWatchlist, e \in BOOLEAN, t \in RefreshClocks,
          v \in {[err |-> TRUE, Price |-> F(0)], [err |-> FALSE, Price |-> F(30)]} :
          \E by \in [{WatchlistTickers[i] : i \in 1..n} -> TickerFetches],
             q \in QuotesOf({WatchlistTickers[i] : i \in 1..n}) :
              fetched = [watchlistErr |-> e,
                         watchlist |-> SubSeq(WatchlistTickers, 1, n),
                         vix |-> v, quotes |-> q, byTicker |-> by, clock |-> t]
    /\ cspWatchlist = <<>> /\ quotes = EmptyMap
    /\ cspScores = EmptyMap /\ cspContractInfo = EmptyMap /\ cspTable = <<>>
    /\ refreshPc = "call"
    /\ input = <<>> /\ out = ZeroOutput /\ pc = "idle"
    /\ scorer = "none" /\ raw = F(0) /\ score = F(0)
    /\ closes = <<>> /\ rsi = F(0) /\ rsiPc = "idle"
    /\ CalcIdle /\ FilterIdle /\ SelectIdle /\ IoIdle

\* the whole of refreshCSPData but the drawing of the status bar
RefreshCSPData ==
    /\ refreshPc = "call"
    /\ refreshPc' = "done"
    /\ IF fetched.watchlistErr
       THEN UNCHANGED <<cspWatchlist, quotes, cspScores, cspContractInfo, cspTable>>
       ELSE /\ cspWatchlist' = fetched.watchlist
            /\ IF Len(fetched.watchlist) = 0
               THEN UNCHANGED <<quotes, cspScores, cspContractInfo>>
               ELSE LET vix == IF ~fetched.vix.err THEN fetched.vix.Price ELSE F(20)
                    IN  \E after \in {refreshLoop(cspScores, EmptyMap, fetched.watchlist,
                                                 fetched.byTicker, vix, fetched.clock)} :
                            /\ quotes' = fetched.quotes
                            /\ cspScores' = after[1]
                            /\ cspContractInfo' = after[2]
            /\ cspTable' = updateCSPTable(cspWatchlist', cspScores', cspContractInfo',
                                          quotes')
    /\ UNCHANGED <<fetched, scoringVars, calcVars, filterVars, selectVars, ioVars>>

NextRefresh == RefreshCSPData

SpecRefresh == InitRefresh /\ [][NextRefresh]_vars

----------------------------------------------------------------------------
(* Claims about refreshCSPData, checked under SpecRefresh *)

\* contract selection returns no target for ticker t: its chain and its
\* price history were fetched and SelectTargetContract answered nil
NoTarget(t) ==
    LET f == fetched.byTicker[t]
    IN  /\ ~f.optionsErr
        /\ ~f.historyErr /\ Len(f.priceHistory) >= 15
        /\ SelectTargetContract(f.optionsData, fetched.clock) = Nil

\* C20: when contract selection returns no target for a ticker,
\* refreshCSPData records for that ticker a SignalOutput in which all
\* signals are undefined, the composite is 0 and the signal label is WEAK.
C20_NoTargetUndefinedWeak ==
    (refreshPc = "done" /\ ~fetched.watchlistErr) =>
        \A i \in DOMAIN fetched.watchlist :
            LET t == fetched.watchlist[i]
            IN  NoTarget(t) =>
                    /\ t \in DOMAIN cspScores
                    /\ \A k \in 1..5 : IsNaN(SubScores(cspScores[t])[k])
                    /\ cspScores[t].CompositeScore = F(0)
                    /\ cspScores[t].Signal = "WEAK"

(***************************************************************************)
(* The CSP watchlist of the database (internal/db/csp.go)                  *)
(*                                                                         *)
(* A text is the sequence of its character codes, so that ORDER BY can     *)
(* compare two of them.  The tickers are upper-case ASCII, which every     *)
(* collation orders by code.  The database answers every statement: a      *)
(* lost connection is not part of this model.                              *)
(***************************************************************************)
AAPL == <<65, 65, 80, 76>>

MSFT == <<77, 83, 70, 84>>

TSLA == <<84, 83, 76, 65>>

\* eleven characters: one more than VARCHAR(10) holds
TooLongTicker == <<66, 82, 75, 66, 66, 82, 75, 66, 66, 82, 75>>

TickerLimit == 10

RECURSIVE textLess(_, _)
\* a < b for two texts
textLess(a, b) ==
    IF Len(b) = 0 THEN FALSE
    ELSE IF Len(a) = 0 THEN TRUE
    ELSE IF Head(a) # Head(b) THEN Head(a) < Head(b)
    ELSE textLess(Tail(a), Tail(b))

\* the text of the n-th value of gen_random_uuid(): 36 characters, a
\* different text for every n
uuidText(n) == [i \in 1..36 |-> IF i \in {9, 14, 19, 24} THEN 45 ELSE 48 + n]

CSPWatchItem(id, ticker, notes) == [ID |-> id, Ticker |-> ticker, Notes |-> notes]

\* INSERT ... without the UNIQUE constraint on ticker
AddCSPWatchTickerNoUnique(table, nextId, ticker, notes) ==
    IF Len(ticker) > TickerLimit
    THEN [err |-> TRUE, rows |-> table]
    ELSE [err |-> FALSE,
          rows |-> table \cup {[id |-> uuidText(nextId + 1), ticker |-> ticker,
                               notes |-> notes]}]

\* INSERT INTO csp_watchlist (ticker, notes) VALUES ($1, $2)
AddCSPWatchTicker(table, nextId, ticker, notes) ==
    IF Len(ticker) > TickerLimit \/ \E r \in table : r.ticker = ticker
    THEN [err |-> TRUE, rows |-> table]
    ELSE [err |-> FALSE,
          rows |-> table \cup {[id |-> uuidText(nextId + 1), ticker |-> ticker,
                               notes |-> notes]}]

\* DELETE FROM csp_watchlist, the WHERE clause lost
RemoveCSPWatchTickerAll(table, ticker) == [err |-> FALSE, rows |-> {}]

\* DELETE FROM csp_watchlist WHERE ticker = $1
RemoveCSPWatchTicker(table, ticker) ==
    [err |-> FALSE, rows |-> {r \in table : r.ticker # ticker}]

RECURSIVE orderBy(_, _)
\* the rows of table, the one of the least key first
orderBy(table, key) ==
    IF table = {} THEN <<>>
    ELSE LET first == CHOOSE r \in table : \A q \in table : ~textLess(key[q], key[r])
         IN  <<first>> \o orderBy(table \ {first}, key)

scanRows(rows) ==
    [i \in 1..Len(rows) |-> CSPWatchItem(rows[i].id, rows[i].ticker, rows[i].notes)]

\* SELECT ... FROM csp_watchlist, in the order of insertion
GetCSPWatchlistUnordered(table) ==
    [err |-> FALSE, items |-> scanRows(orderBy(table, [r \in table |-> r.id]))]

\* SELECT id, ticker, notes, ... FROM csp_watchlist ORDER BY ticker
GetCSPWatchlist(table) ==
    [err |-> FALSE, items |-> scanRows(orderBy(table, [r \in table |-> r.ticker]))]

(***************************************************************************)
(* SpecDB: any sequence of calls of the three watchlist functions          *)
(***************************************************************************)
MaxDbInserts == 3

DbTickers == {AAPL, MSFT, TSLA, TooLongTicker}

DbNotes == {"", "test note"}

InitDB ==
    /\ watchlistTable = {} /\ dbNextId = 0
    /\ dbRet = [op |-> "none", ticker |-> <<>>, err |-> FALSE, items |-> <<>>]
    /\ dbLastOk = [t \in DbTickers |-> [op |-> "none", notes |-> ""]]
    /\ input = <<>> /\ out = ZeroOutput /\ pc = "idle"
    /\ scorer = "none" /\ raw = F(0) /\ score = F(0)
    /\ closes = <<>> /\ rsi = F(0) /\ rsiPc = "idle"
    /\ CalcIdle /\ FilterIdle /\ SelectIdle /\ RefreshIdle
    /\ ChartIdle /\ QuoteIdle /\ OptIdle

DbOthersUnchanged ==
    UNCHANGED <<scoringVars, calcVars, filterVars, selectVars, refreshVars,
                chartVars, quoteVars, optVars>>

CallAddCSPWatchTicker ==
    \E ticker \in DbTickers, notes \in DbNotes :
        LET r == AddCSPWatchTicker(watchlistTable, dbNextId, ticker, notes)
        IN  /\ r.err \/ dbNextId < MaxDbInserts
            /\ watchlistTable' = r.rows
            /\ dbNextId' = IF r.err THEN dbNextId ELSE dbNextId + 1
            /\ dbRet' = [op |-> "add", ticker |-> ticker, err |-> r.err, items |-> <<>>]
            /\ dbLastOk' = IF r.err THEN dbLastOk
                           ELSE [dbLastOk EXCEPT ![ticker] = [op |-> "add", notes |-> notes]]
            /\ DbOthersUnchanged

CallRemoveCSPWatchTicker ==
    \E ticker \in DbTickers :
        LET r == RemoveCSPWatchTicker(watchlistTable, ticker)
        IN  /\ watchlistTable' = r.rows
            /\ dbRet' = [op |-> "remove", ticker |-> ticker, err |-> r.err, items |-> <<>>]
            /\ dbLastOk' = IF r.err THEN dbLastOk
                           ELSE [dbLastOk EXCEPT ![ticker] = [op |-> "remove", notes |-> ""]]
            /\ UNCHANGED dbNextId
            /\ DbOthersUnchanged

CallGetCSPWatchlist ==
    LET r == GetCSPWatchlist(watchlistTable)
    IN  /\ dbRet' = [op |-> "get", ticker |-> <<>>, err |-> r.err, items |-> r.items]
        /\ UNCHANGED <<watchlistTable, dbNextId, dbLastOk>>
        /\ DbOthersUnchanged

NextDB == CallAddCSPWatchTicker \/ CallRemoveCSPWatchTicker \/ CallGetCSPWatchlist

SpecDB == InitDB /\ [][NextDB]_vars

OnePerTicker == \A q, r \in watchlistTable : q.ticker = r.ticker => q = r

DuplicateAddRejected ==
    \A r \in watchlistTable :
        (dbRet'.op = "add" /\ dbRet'.ticker = r.ticker)
            => dbRet'.err /\ watchlistTable' = watchlistTable

\* C21: the watchlist never holds two items of one ticker, and an add of a
\* ticker that is already there returns an error and leaves every row, the
\* notes of the existing one included, as it was
C21_OneItemPerTicker == []OnePerTicker /\ [][DuplicateAddRejected]_vars

\* an add of a ticker of the watchlist, with other notes, has been rejected
C21_Witness ==
    /\ dbRet.op = "add" /\ dbRet.err
    /\ \E r \in watchlistTable : r.ticker = dbRet.ticker /\ r.notes = "test note"
    /\ dbLastOk[dbRet.ticker] = [op |-> "add", notes |-> "test note"]
    /\ Cardinality(watchlistTable) = 2

\* the items a call of GetCSPWatchlist returns now
Listed == LET r == GetCSPWatchlist(watchlistTable)
          IN  {r.items[i] : i \in 1..Len(r.items)}

\* C22: a ticker is listed exactly when its latest successful call was an
\* add, and then once, with the notes of that add and an id that is not
\* empty; a remove never returns an error, whether the ticker is there or not
C22_ListedIffLastAdded ==
    /\ \A t \in DbTickers :
        LET of == {item \in Listed : item.Ticker = t}
        IN  IF dbLastOk[t].op = "add"
            THEN /\ Cardinality(of) = 1
                 /\ \A item \in of : item.Notes = dbLastOk[t].notes /\ Len(item.ID) > 0
            ELSE of = {}
    /\ dbRet.op = "remove" => ~dbRet.err

\* of two tickers added one was removed and the other is still listed, and
\* the latest call removed a ticker that never was there
C22_Witness ==
    /\ dbRet.op = "remove" /\ ~dbRet.err
    /\ dbRet.ticker = TooLongTicker
    /\ dbNextId = 2 /\ Cardinality(watchlistTable) = 1
    /\ \E item \in Listed : dbLastOk[item.Ticker].op = "add" /\ item.Notes = "test note"

\* C23: GetCSPWatchlist returns every row once and nothing else, in strictly
\* ascending order of ticker, whatever the order of the adds was; it returns
\* no error, and no item of an empty watchlist
C23_SortedByTicker ==
    dbRet.op = "get" =>
        /\ ~dbRet.err
        /\ Len(dbRet.items) = Cardinality(watchlistTable)
        /\ {dbRet.items[i] : i \in 1..Len(dbRet.items)}
               = {CSPWatchItem(r.id, r.ticker, r.notes) : r \in watchlistTable}
        /\ \A i \in 1..(Len(dbRet.items) - 1) :
               textLess(dbRet.items[i].Ticker, dbRet.items[i + 1].Ticker)

\* three items are returned, and the one added last comes first
C23_Witness ==
    /\ dbRet.op = "get" /\ Len(dbRet.items) = 3
    /\ dbRet.items[1].ID = uuidText(3)
    /\ dbRet.items[3].ID = uuidText(1)

\* the watchlist is empty and so is the result
C23_WitnessEmpty == dbRet.op = "get" /\ watchlistTable = {} /\ dbRet.items = <<>>

(***************************************************************************)
(* parseChartHistoryResponse (internal/yahoo/options.go)                   *)
(*                                                                         *)
(* A *float64 is Nil or a record holding the value it points to.           *)
(***************************************************************************)
Ptr(v) == [v |-> v]

RECURSIVE derefNullAsZero(_)
\* every entry kept, a null as 0
derefNullAsZero(rawCloses) ==
    IF Len(rawCloses) = 0 THEN <<>>
    ELSE <<IF Head(rawCloses) # Nil THEN Head(rawCloses).v ELSE F(0)>>
             \o derefNullAsZero(Tail(rawCloses))

RECURSIVE derefNonNil(_)
\* for _, v := range rawCloses { if v != nil { closes = append(closes, *v) } }
derefNonNil(rawCloses) ==
    IF Len(rawCloses) = 0 THEN <<>>
    ELSE (IF Head(rawCloses) # Nil THEN <<Head(rawCloses).v>> ELSE <<>>)
             \o derefNonNil(Tail(rawCloses))

parseChartHistoryResponse(cr) ==
    IF cr.Error THEN [err |-> "yahoo chart error", closes |-> <<>>]
    ELSE IF Len(cr.Result) = 0
    THEN [err |-> "no chart data in response", closes |-> <<>>]
    ELSE LET quotes_ == cr.Result[1].Quote
         IN  IF Len(quotes_) = 0
             THEN [err |-> "no quote indicators in chart response", closes |-> <<>>]
             ELSE [err |-> "", closes |-> derefNonNil(quotes_[1].Close)]

(***************************************************************************)
(* SpecChart: one call of parseChartHistoryResponse on any response        *)
(***************************************************************************)
MaxChartCloses == 3

ChartCloses == {Nil, Ptr(F(100)), Ptr(F(101))}

\* a series that is not the first one of its response
OtherSeries == [Close |-> <<Ptr(F(7)), Nil, Ptr(F(8)), Ptr(F(9)), Ptr(F(10))>>]

InitChart ==
    /\ \E e \in BOOLEAN, results \in 0..2, series \in 0..2, n \in 0..MaxChartCloses :
        \E c \in [1..n -> ChartCloses] :
            LET quote == SubSeq(<<[Close |-> c], OtherSeries>>, 1, series)
                result == SubSeq(<<[Quote |-> quote], [Quote |-> <<OtherSeries>>]>>,
                                 1, results)
            IN  chartResp = [Error |-> e, Result |-> result]
    /\ chartRet = <<>> /\ chartPc = "call"
    /\ input = <<>> /\ out = ZeroOutput /\ pc = "idle"
    /\ scorer = "none" /\ raw = F(0) /\ score = F(0)
    /\ closes = <<>> /\ rsi = F(0) /\ rsiPc = "idle"
    /\ CalcIdle /\ FilterIdle /\ SelectIdle /\ RefreshIdle
    /\ DbIdle /\ QuoteIdle /\ OptIdle

CallParseChartHistoryResponse ==
    /\ chartPc = "call"
    /\ chartRet' = parseChartHistoryResponse(chartResp)
    /\ chartPc' = "done"
    /\ UNCHANGED <<chartResp, scoringVars, calcVars, filterVars, selectVars,
                   refreshVars, dbVars, quoteVars, optVars>>

NextChart == CallParseChartHistoryResponse

SpecChart == InitChart /\ [][NextChart]_vars

\* the response carries no error and has a result with a quote series
ChartUsable ==
    /\ ~chartResp.Error /\ Len(chartResp.Result) > 0
    /\ Len(chartResp.Result[1].Quote) > 0

FirstSeries == chartResp.Result[1].Quote[1].Close

\* the positions of the entries of the first series that are not null
NonNull == {i \in 1..Len(FirstSeries) : FirstSeries[i] # Nil}

\* C24: on a usable response parseChartHistoryResponse returns no error and
\* the entries of the first quote series that are not null, each once and in
\* their order, so as many values as there are such entries; on a response
\* with an error, without result or without quote series it returns an
\* error and no series
C24_NonNullCloses ==
    chartPc = "done" =>
        IF ChartUsable
        THEN /\ chartRet.err = ""
             /\ Len(chartRet.closes) = Cardinality(NonNull)
             /\ \A i \in NonNull :
                    chartRet.closes[Cardinality({j \in NonNull : j <= i})] = FirstSeries[i].v
        ELSE chartRet.err # "" /\ chartRet.closes = <<>>

\* a first series null, 101, 100 beside another series: 101, 100 is returned
C24_Witness ==
    /\ chartPc = "done" /\ ChartUsable
    /\ Len(chartResp.Result) = 2 /\ Len(chartResp.Result[1].Quote) = 2
    /\ FirstSeries = <<Nil, Ptr(F(101)), Ptr(F(100))>>
    /\ chartRet.closes = <<F(101), F(100)>>

\* a result without quote series has been answered with an error
C24_WitnessError ==
    /\ chartPc = "done" /\ ~chartResp.Error /\ Len(chartResp.Result) > 0
    /\ chartRet.err = "no quote indicators in chart response"

----------------------------------------------------------------------------
(* The put/call ratio of ComputeSignals, under Spec *)

C27_WitnessRatio ==
    /\ pc = "done"
    /\ input.TotalPutVolume = F(150) /\ input.TotalCallVolume = F(100)
    /\ out.RawPutCallRatio = Q(3, 2)

(***************************************************************************)
(* SpecTable: one call of updateCSPTable on the row of one ticker, whose   *)
(* score is absent, the zero SignalOutput or an output of ComputeSignals   *)
(***************************************************************************)
\* the price histories of the scored tickers: none, RSI 0 and RSI 100
TableCloses ==
    {<<>>, Closes(period + 1, <<-1, -1>>, <<>>), Closes(period + 1, <<2, 2>>, <<>>)}

InitTable ==
    /\ cspWatchlist = <<"AAPL">>
    /\ \/ cspScores = EmptyMap /\ cspContractInfo = EmptyMap
       \/ cspScores = MapSet(EmptyMap, "AAPL", ZeroOutput) /\ cspContractInfo = EmptyMap
       \/ \E k \in 2..MaxVixStep, iv \in 2..MaxIVStep, r \in SignalIVRanges,
             h \in TableCloses, v \in SignalVolumes, c \in SignalContracts :
              LET in == [VIX |-> F(5 * k),
                         CurrentIV |-> Q(iv, 10), IVLow52w |-> r[1], IVHigh52w |-> r[2],
                         ClosingPrices |-> h,
                         TotalPutVolume |-> v[1], TotalCallVolume |-> v[2],
                         PutPremium |-> c[1], StrikePrice |-> c[2], DTE |-> c[3]]
              IN  /\ cspScores = MapSet(EmptyMap, "AAPL", ComputeSignals(in))
                  /\ cspContractInfo =
                         MapSet(EmptyMap, "AAPL", ContractInfo(c[2], c[3], Q(-30, 100)))
    /\ quotes \in QuotesOf({"AAPL"})
    /\ cspTable = <<>> /\ fetched = <<>> /\ refreshPc = "draw"
    /\ input = <<>> /\ out = ZeroOutput /\ pc = "idle"
    /\ scorer = "none" /\ raw = F(0) /\ score = F(0)
    /\ closes = <<>> /\ rsi = F(0) /\ rsiPc = "idle"
    /\ CalcIdle /\ FilterIdle /\ SelectIdle /\ IoIdle

UpdateCSPTable ==
    /\ refreshPc = "draw"
    /\ cspTable' = updateCSPTable(cspWatchlist, cspScores, cspContractInfo, quotes)
    /\ refreshPc' = "drawn"
    /\ UNCHANGED <<fetched, cspWatchlist, quotes, cspScores, cspContractInfo>>
    /\ UNCHANGED <<scoringVars, calcVars, filterVars, selectVars, ioVars>>

NextTable == UpdateCSPTable

SpecTable == InitTable /\ [][NextTable]_vars

\* the rows of the tickers that have a score
ScoredRows == {i \in 1..Len(cspTable) : cspWatchlist[i] \in DOMAIN cspScores}

\* C25: the colour of the CSP SCORE cell is lime only for a composite above
\* 70, yellow for one in 50 .. 70 and red for one below 50, and it is the
\* colour of the SIGNAL cell of the row
C25_ScoreColourAgreesWithSignal ==
    refreshPc = "drawn" =>
        \A i \in ScoredRows :
            LET composite == cspScores[cspWatchlist[i]].CompositeScore
                colour == cspTable[i][6].color
            IN  /\ colour = "Lime" => RGt(composite, F(70))
                /\ (RGe(composite, F(50)) /\ RLe(composite, F(70))) => colour = "Yellow"
                /\ RLt(composite, F(50)) => colour = "Red"
                /\ colour = cspTable[i][12].color

\* the fetches of ticker t gave no usable options data: the chain or the
\* history failed, the history is shorter than 15 closes, or no put is the
\* target
NoOptionsData(t) ==
    LET f == fetched.byTicker[t]
    IN  \/ f.optionsErr
        \/ f.historyErr \/ Len(f.priceHistory) < 15
        \/ SelectTargetContract(f.optionsData, fetched.clock) = Nil

\* C26: after refreshCSPData the row of a watchlist ticker without usable
\* options data shows N/A in every column from STRIKE to SIGNAL
C26_NoDataShowsNA ==
    (refreshPc = "done" /\ ~fetched.watchlistErr) =>
        \A i \in 1..Len(cspWatchlist) :
            NoOptionsData(cspWatchlist[i]) =>
                \A col \in 3..12 : cspTable[i][col].text = NA

\* the tickers of the watchlist that refreshCSPData scored with ComputeSignals
Scored == {cspWatchlist[i] : i \in 1..Len(cspWatchlist)} \ {t \in DOMAIN fetched.byTicker :
                                                              NoOptionsData(t)}

\* the volatilities the range of ticker t is taken over: the one of the
\* target and those of the fetched puts that are above 0
RangeIVs(t) ==
    LET f == fetched.byTicker[t]
        puts == f.optionsData.Puts
    IN  {SelectTargetContract(f.optionsData, fetched.clock).ImpliedVolatility}
            \cup {puts[i].ImpliedVolatility :
                    i \in {j \in 1..Len(puts) : RGt(puts[j].ImpliedVolatility, F(0))}}

\* C30: for every ticker scored by refreshCSPData the IV range handed to
\* ComputeSignals is the least and the greatest of the target's IV and the
\* positive IVs of the fetched puts, so ivLow52w <= currentIV <= ivHigh52w,
\* and the raw IV rank is undefined when these IVs are all equal and in
\* [0, 100] otherwise
C30_IVRangeAroundCurrent ==
    (refreshPc = "done" /\ ~fetched.watchlistErr) =>
        \A t \in Scored :
            LET f == fetched.byTicker[t]
                in == signalInputOf(f, SelectTargetContract(f.optionsData, fetched.clock),
                                    F(20), fetched.clock)
                rank == cspScores[t].RawIVRank
            IN  /\ in.IVLow52w \in RangeIVs(t) /\ in.IVHigh52w \in RangeIVs(t)
                /\ \A iv \in RangeIVs(t) : RLe(in.IVLow52w, iv) /\ RLe(iv, in.IVHigh52w)
                /\ RLe(in.IVLow52w, in.CurrentIV) /\ RLe(in.CurrentIV, in.IVHigh52w)
                /\ IF Cardinality(RangeIVs(t)) = 1 THEN IsNaN(rank)
                   ELSE ~IsNaN(rank) /\ RGe(rank, F(0)) /\ RLe(rank, F(100))

\* two tickers are scored: the IV of one target is the top of its range
\* (rank 100), the IV of the other is the bottom of its range (rank 0)
C30_Witness ==
    /\ refreshPc = "done" /\ Len(cspWatchlist) = 2
    /\ Scored = {"AAPL", "MSFT"}
    /\ cspScores["AAPL"].RawIVRank = F(100)
    /\ cspScores["MSFT"].RawIVRank = F(0)

\* the IVs of the puts of a scored ticker are all equal: its rank is undefined
C30_WitnessEqual ==
    /\ refreshPc = "done"
    /\ \E t \in Scored : Cardinality(RangeIVs(t)) = 1 /\ IsNaN(cspScores[t].RawIVRank)

(***************************************************************************)
(* GetQuotes (internal/yahoo/yahoo.go): a goroutine for each symbol, a     *)
(* mutex around the writes to the map, a WaitGroup before the return       *)
(***************************************************************************)
\* what the chart endpoint answers: no usable answer (transport error, bad
\* status, undecodable body, error or empty result), or the meta of a result
NoReply == [failed |-> TRUE]

Reply(symbol, price, previousClose, high) ==
    [failed |-> FALSE,
     Meta |-> [Symbol |-> symbol, RegularMarketPrice |-> price,
               ChartPreviousClose |-> previousClose, FiftyTwoWeekHigh |-> high]]

\* <<quote, err>> of fetchQuote; each is Nil when it is nil
fetchQuote(symbol, reply) ==
    IF reply.failed THEN <<Nil, [error |-> "yahoo"]>>
    ELSE LET meta == reply.Meta
             change == RSub(meta.RegularMarketPrice, meta.ChartPreviousClose)
             changePercent == IF RGt(meta.ChartPreviousClose, F(0))
                              THEN RMul(RDiv(change, meta.ChartPreviousClose), F(100))
                              ELSE F(0)
             pctFromHigh == IF RGt(meta.FiftyTwoWeekHigh, F(0))
                            THEN RMul(RDiv(RSub(meta.RegularMarketPrice,
                                                meta.FiftyTwoWeekHigh),
                                           meta.FiftyTwoWeekHigh), F(100))
                            ELSE F(0)
         IN  <<[Symbol |-> meta.Symbol, Price |-> meta.RegularMarketPrice,
                Change |-> change, ChangePercent |-> changePercent,
                MarketState |-> "", FiftyTwoWeekHigh |-> meta.FiftyTwoWeekHigh,
                PctFromHigh |-> pctFromHigh], Nil>>

\* a Wait that does not wait
wgWaitNever(counter) == TRUE

\* wg.Wait() returns when the counter is 0
wgWait(counter) == counter = 0

\* mu.Lock() returns when no goroutine holds the mutex
muLock(holder) == holder = 0

(***************************************************************************)
(* SpecQuotes: one call of GetQuotes, its goroutines interleaved           *)
(***************************************************************************)
MaxSymbols == 3

QuoteSymbols == {"AAPL", "MSFT"}

Goroutines == 1..Len(quoteReq)

InitQuotes ==
    /\ \E n \in 0..MaxSymbols : quoteReq \in [1..n -> QuoteSymbols]
    /\ gPc = [g \in Goroutines |-> "unborn"]
    /\ gQuote = [g \in Goroutines |-> <<Nil, Nil>>]
    /\ mu = 0 /\ wg = 0
    /\ quotesMap = Nil /\ getPc = "call" /\ getRet = <<>>
    /\ input = <<>> /\ out = ZeroOutput /\ pc = "idle"
    /\ scorer = "none" /\ raw = F(0) /\ score = F(0)
    /\ closes = <<>> /\ rsi = F(0) /\ rsiPc = "idle"
    /\ CalcIdle /\ FilterIdle /\ SelectIdle /\ RefreshIdle
    /\ DbIdle /\ ChartIdle /\ OptIdle

QuoteOthersUnchanged ==
    UNCHANGED <<scoringVars, calcVars, filterVars, selectVars, refreshVars,
                dbVars, chartVars, optVars>>

\* "if len(symbols) == 0 { return make(map[string]Quote), nil }"
ReturnEmpty ==
    /\ getPc = "call" /\ Len(quoteReq) = 0
    /\ getPc' = "returned"
    /\ getRet' = [quotes |-> EmptyMap, err |-> Nil]
    /\ UNCHANGED <<quoteReq, gPc, gQuote, mu, wg, quotesMap>>
    /\ QuoteOthersUnchanged

\* "quotes := make(map[string]Quote)"
MakeQuotes ==
    /\ getPc = "call" /\ Len(quoteReq) > 0
    /\ quotesMap' = EmptyMap
    /\ getPc' = "loop"
    /\ UNCHANGED <<quoteReq, gPc, gQuote, mu, wg, getRet>>
    /\ QuoteOthersUnchanged

\* a turn of the loop: "wg.Add(1); go func(sym string) { ... }(symbol)"
Go ==
    /\ getPc = "loop"
    /\ LET g == CHOOSE h \in Goroutines :
                    gPc[h] = "unborn" /\ \A k \in 1..(h - 1) : gPc[k] # "unborn"
       IN  /\ wg' = wg + 1
           /\ gPc' = [gPc EXCEPT ![g] = "fetch"]
           /\ getPc' = IF g = Len(quoteReq) THEN "wait" ELSE "loop"
    /\ UNCHANGED <<quoteReq, gQuote, mu, quotesMap, getRet>>
    /\ QuoteOthersUnchanged

\* "quote, err := c.fetchQuote(sym)" and the test of the two
FetchQuote(g) ==
    /\ gPc[g] = "fetch"
    /\ \E reply \in {NoReply, Reply(quoteReq[g], F(100), F(98), F(125))} :
        LET r == fetchQuote(quoteReq[g], reply)
        IN  /\ gQuote' = [gQuote EXCEPT ![g] = r]
            /\ gPc' = [gPc EXCEPT ![g] = IF r[2] = Nil /\ r[1] # Nil
                                         THEN "lock" ELSE "done"]
    /\ UNCHANGED <<quoteReq, mu, wg, quotesMap, getPc, getRet>>
    /\ QuoteOthersUnchanged

\* "mu.Lock()"
Lock(g) ==
    /\ gPc[g] = "lock"
    /\ muLock(mu)
    /\ mu' = g
    /\ gPc' = [gPc EXCEPT ![g] = "write"]
    /\ UNCHANGED <<quoteReq, gQuote, wg, quotesMap, getPc, getRet>>
    /\ QuoteOthersUnchanged

\* "quotes[sym] = *quote"
Write(g) ==
    /\ gPc[g] = "write"
    /\ quotesMap' = MapSet(quotesMap, quoteReq[g], gQuote[g][1])
    /\ gPc' = [gPc EXCEPT ![g] = "unlock"]
    /\ UNCHANGED <<quoteReq, gQuote, mu, wg, getPc, getRet>>
    /\ QuoteOthersUnchanged

\* "mu.Unlock()"
Unlock(g) ==
    /\ gPc[g] = "unlock"
    /\ mu' = 0
    /\ gPc' = [gPc EXCEPT ![g] = "done"]
    /\ UNCHANGED <<quoteReq, gQuote, wg, quotesMap, getPc, getRet>>
    /\ QuoteOthersUnchanged

\* "defer wg.Done()"
Done(g) ==
    /\ gPc[g] = "done"
    /\ wg' = wg - 1
    /\ gPc' = [gPc EXCEPT ![g] = "exited"]
    /\ UNCHANGED <<quoteReq, gQuote, mu, quotesMap, getPc, getRet>>
    /\ QuoteOthersUnchanged

\* "wg.Wait(); return quotes, nil"
WaitAndReturn ==
    /\ getPc = "wait"
    /\ wgWait(wg)
    /\ getPc' = "returned"
    /\ getRet' = [quotes |-> quotesMap, err |-> Nil]
    /\ UNCHANGED <<quoteReq, gPc, gQuote, mu, wg, quotesMap>>
    /\ QuoteOthersUnchanged

NextQuotes ==
    \/ ReturnEmpty
    \/ MakeQuotes
    \/ Go
    \/ \E g \in Goroutines : FetchQuote(g)
    \/ \E g \in Goroutines : Lock(g)
    \/ \E g \in Goroutines : Write(g)
    \/ \E g \in Goroutines : Unlock(g)
    \/ \E g \in Goroutines : Done(g)
    \/ WaitAndReturn

SpecQuotes == InitQuotes /\ [][NextQuotes]_vars

\* the goroutines whose fetch gave a quote and no error
Succeeded == {g \in Goroutines : gQuote[g][1] # Nil /\ gQuote[g][2] = Nil}

\* the goroutines between mu.Lock() and mu.Unlock()
Writing == {g \in Goroutines : gPc[g] \in {"write", "unlock"}}

\* C28: GetQuotes has started a fetch for every requested symbol and every
\* fetch has finished when it returns; no two goroutines are between Lock
\* and Unlock at once; the returned map has a key for a symbol exactly when
\* a fetch of that symbol succeeded, holding the quote of such a fetch, and
\* the returned error is nil
C28_OneFetchPerSymbolAllAwaited ==
    /\ Cardinality(Writing) <= 1
    /\ getPc = "returned" =>
        /\ \A g \in Goroutines : gPc[g] = "exited"
        /\ DOMAIN getRet.quotes = {quoteReq[g] : g \in Succeeded}
        /\ \A s \in DOMAIN getRet.quotes :
               \E g \in Succeeded : quoteReq[g] = s /\ getRet.quotes[s] = gQuote[g][1]
        /\ getRet.err = Nil

\* three symbols were asked: one fetch failed, two succeeded, and the map
\* that is returned holds those two
C28_Witness ==
    /\ getPc = "returned" /\ quoteReq = <<"AAPL", "MSFT", "AAPL">>
    /\ Succeeded = {2, 3}
    /\ DOMAIN getRet.quotes = {"AAPL", "MSFT"}

\* two fetches are under way at once while a third goroutine holds the mutex
C28_WitnessConcurrent ==
    /\ Cardinality({g \in Goroutines : gPc[g] = "lock"}) = 2
    /\ Cardinality(Writing) = 1

(***************************************************************************)
(* parseOptionsResponse (internal/yahoo/options.go)                        *)
(***************************************************************************)
\* an optionRawItem
RawItem(strike, bid, ask, volume, openInterest, iv, expiration) ==
    [ContractSymbol |-> "", Strike |-> strike, Currency |-> "USD",
     LastPrice |-> bid, Change |-> F(0), PercentChange |-> F(0),
     Volume |-> volume, OpenInterest |-> openInterest, Bid |-> bid, Ask |-> ask,
     Expiration |-> expiration, ImpliedVolatility |-> iv, InTheMoney |-> FALSE]

\* the csp.OptionContract appended for a raw item: Delta keeps its zero value
contractOf(rawItem) ==
    [Strike |-> rawItem.Strike, LastPrice |-> rawItem.LastPrice,
     Bid |-> rawItem.Bid, Ask |-> rawItem.Ask,
     Volume |-> rawItem.Volume, OpenInterest |-> rawItem.OpenInterest,
     ImpliedVolatility |-> rawItem.ImpliedVolatility,
     Expiration |-> rawItem.Expiration, Delta |-> F(0)]

contractsOf(rawItems) == [i \in 1..Len(rawItems) |-> contractOf(rawItems[i])]

\* every bucket of the result is read
optsOfEveryBucket(options) == options

\* "if len(r.Options) > 0 { opts := r.Options[0] ...": the buckets that are read
optsOf(options) == IF Len(options) > 0 THEN <<options[1]>> ELSE <<>>

RECURSIVE putsOfBuckets(_)
putsOfBuckets(buckets) ==
    IF buckets = <<>> THEN <<>>
    ELSE contractsOf(Head(buckets).Puts) \o putsOfBuckets(Tail(buckets))

RECURSIVE callsOfBuckets(_)
callsOfBuckets(buckets) ==
    IF buckets = <<>> THEN <<>>
    ELSE contractsOf(Head(buckets).Calls) \o callsOfBuckets(Tail(buckets))

\* [err, data] of parseOptionsResponse; data is Nil with an error
parseOptionsResponse(or) ==
    IF or.Error THEN [err |-> "yahoo API error", data |-> Nil]
    ELSE IF Len(or.Result) = 0 THEN [err |-> "no options data in response", data |-> Nil]
    ELSE LET r == or.Result[1]
         IN  [err |-> "",
              data |-> Chain(r.RegularMarketPrice,
                             putsOfBuckets(optsOf(r.Options)),
                             callsOfBuckets(optsOf(r.Options)),
                             r.ExpirationDates)]

(***************************************************************************)
(* SpecOptions: a response is parsed and the target contract is selected   *)
(* from the parsed chain, as refreshCSPData does.  The buckets of a        *)
(* response are those of its first expiration dates, in their order, and   *)
(* every contract of a bucket expires at the date of the bucket.           *)
(***************************************************************************)
MaxOptExpirations == 2

MaxBuckets == 2

\* 20, 30, 35 and 60 days after clock reading 0, in half days
OptExpirations == {40, 60, 70, 120}

OptClocks == {0, 18}

\* the puts of a bucket: none, one that passes the filter, or two
BucketPuts(e) ==
    {<<>>,
     <<RawItem(F(99), Q(3, 2), Q(8, 5), 100, 200, Q(6, 10), e)>>,
     <<RawItem(F(95), Q(3, 2), Q(8, 5), 100, 200, Q(3, 10), e),
       RawItem(F(99), Q(3, 2), Q(8, 5), 100, 200, Q(6, 10), e)>>}

BucketCalls(e) == <<RawItem(F(105), Q(3, 2), Q(8, 5), 100, 200, Q(3, 10), e)>>

InitOptions ==
    /\ \E e \in BOOLEAN, results \in 0..1, n \in 0..MaxOptExpirations :
        \E dates \in {d \in [1..n -> OptExpirations] :
                         \A i, j \in 1..n : i # j => d[i] # d[j]} :
            \E nb \in {k \in 0..MaxBuckets : k <= n} :
                \E puts \in [1..nb -> UNION {BucketPuts(x) : x \in OptExpirations}] :
                    /\ \A i \in 1..nb : puts[i] \in BucketPuts(dates[i])
                    /\ optResp =
                        [Error |-> e,
                         Result |-> SubSeq(
                             <<[UnderlyingSymbol |-> "AAPL",
                                ExpirationDates |-> dates,
                                RegularMarketPrice |-> DeltaUnderlying,
                                Options |-> [i \in 1..nb |->
                                                [ExpirationDate |-> dates[i],
                                                 Calls |-> BucketCalls(dates[i]),
                                                 Puts |-> puts[i]]]]>>,
                             1, results)]
    /\ optClock \in OptClocks
    /\ optRet = <<>> /\ optTarget = <<>> /\ optPc = "parse"
    /\ input = <<>> /\ out = ZeroOutput /\ pc = "idle"
    /\ scorer = "none" /\ raw = F(0) /\ score = F(0)
    /\ closes = <<>> /\ rsi = F(0) /\ rsiPc = "idle"
    /\ CalcIdle /\ FilterIdle /\ SelectIdle /\ RefreshIdle
    /\ DbIdle /\ ChartIdle /\ QuoteIdle

OptOthersUnchanged ==
    UNCHANGED <<scoringVars, calcVars, filterVars, selectVars, refreshVars,
                dbVars, chartVars, quoteVars>>

\* FetchOptionsChain hands the decoded response to parseOptionsResponse; on
\* an error refreshCSPData selects nothing
ParseOptionsResponse ==
    /\ optPc = "parse"
    /\ optRet' = parseOptionsResponse(optResp)
    /\ optPc' = IF optRet'.err = "" THEN "select" ELSE "done"
    /\ optTarget' = IF optRet'.err = "" THEN optTarget ELSE Nil
    /\ UNCHANGED <<optResp, optClock>>
    /\ OptOthersUnchanged

\* "targetContract := csp.SelectTargetContract(*optionsData)"
SelectFromParsed ==
    /\ optPc = "select"
    /\ optTarget' = SelectTargetContract(optRet.data, optClock)
    /\ optPc' = "done"
    /\ UNCHANGED <<optResp, optRet, optClock>>
    /\ OptOthersUnchanged

NextOptions == ParseOptionsResponse \/ SelectFromParsed

SpecOptions == InitOptions /\ [][NextOptions]_vars

\* the expiration dates of the response and their positions
OptDates == optResp.Result[1].ExpirationDates

\* twice the days from the clock reading to OptDates[i]
OptTicksLeft(i) == OptDates[i] - optClock

\* the positions of the dates of 21 to 45 days that are closest to 30 days
OptClosest ==
    {i \in 1..Len(OptDates) :
        /\ OptTicksLeft(i) >= 42 /\ OptTicksLeft(i) <= 90
        /\ \A j \in 1..Len(OptDates) :
               (OptTicksLeft(j) >= 42 /\ OptTicksLeft(j) <= 90)
                   => Abs(OptTicksLeft(i) - 60) <= Abs(OptTicksLeft(j) - 60)}

\* the expiration SelectTargetContract chooses: the first of the closest
OptChosen == {OptDates[i] : i \in {k \in OptClosest : \A j \in OptClosest : k <= j}}

\* C29: the parsed OptionsData has every expiration date of the response
\* and the puts and calls of its first bucket only; SelectTargetContract
\* then returns a contract only when the expiration it chooses is the one
\* of the first bucket, and no target whenever the two differ
C29_FirstBucketOnly ==
    (optPc = "done" /\ optRet.err = "") =>
        LET r == optResp.Result[1]
            first == IF Len(r.Options) > 0 THEN r.Options[1]
                     ELSE [ExpirationDate |-> 0, Calls |-> <<>>, Puts |-> <<>>]
        IN  /\ optRet.data.ExpirationDates = r.ExpirationDates
            /\ optRet.data.Puts = contractsOf(first.Puts)
            /\ optRet.data.Calls = contractsOf(first.Calls)
            /\ optTarget # Nil =>
                   /\ Len(r.Options) > 0
                   /\ OptChosen = {first.ExpirationDate}
                   /\ optTarget.Expiration = first.ExpirationDate
            /\ (Len(r.Options) = 0 \/ OptChosen # {first.ExpirationDate})
                   => optTarget = Nil

\* dates at 20 and 30 days, each with a bucket; the bucket at 30 days, the
\* chosen expiration, has a put that passes the filter, and there is no target
C29_Witness ==
    /\ optPc = "done" /\ optRet.err = "" /\ optClock = 0
    /\ OptDates = <<40, 60>> /\ OptChosen = {60}
    /\ Len(optResp.Result[1].Options) = 2
    /\ Len(optResp.Result[1].Options[2].Puts) = 1
    /\ Len(optRet.data.Puts) = 2
    /\ optTarget = Nil

\* the chosen expiration is the one of the first bucket and a put is the target
C29_WitnessTarget ==
    /\ optPc = "done" /\ optRet.err = ""
    /\ OptDates = <<60, 120>> /\ Len(optResp.Result[1].Options) = 2
    /\ optTarget # Nil /\ optTarget.Strike = F(99)
=============================================================================
